---- MODULE Spec2Model ----
(***************************************************************************)
(* A model of the portfolio page's PDF viewer (src/src/PdfViewer.tsx), of  *)
(* the page-level wheel handler of App.tsx (src/unnamed/part_001, second   *)
(* copy, lines 670-1464) and of the custom scrollbars.                     *)
(*                                                                         *)
(* Numbers.  Zoom factors are kept in hundredths (1.25 is 125), the device *)
(* pixel ratio too; a scale is a pair <<n, d>> standing for n / d.  Every  *)
(* zoom value of the program is a multiple of 0.25, which binary floating  *)
(* point represents exactly, so the hundredths lose nothing.               *)
(***************************************************************************)
EXTENDS Integers, Sequences, FiniteSets, TLC

(***************************************************************************)
(* Bounds of the model.                                                    *)
(***************************************************************************)
\* renderPdf invocations that reach an await (each is one render session)
MaxSessions == 2
\* layout-readiness retry timers that may be pending at once
MaxTimers == 2
\* render effects set up after the first one (zoom or url changes)
MaxReruns == 2
\* presses of the pointer on a scrollbar's thumb or track
MaxGestures == 1

Sessions == 1 .. MaxSessions
\* window resize events of the fair specification: every session but the
\* first can then be started by a resize event
MaxResize == MaxSessions - 1

(***************************************************************************)
(* Inputs.                                                                 *)
(***************************************************************************)
\* the url prop: two document sources
Urls == {1, 2}
\* clientWidth / clientHeight of the container once it is laid out
ContainerSizes == {<<800, 600>>, <<800, 900>>}
\* the container not laid out yet (0 wide) or laid out
LifecycleSizes == {<<0, 600>>, <<800, 600>>}
\* window.devicePixelRatio in hundredths; 0 stands for an absent value
DevicePixelRatios == {0, 100, 200, 300}
\* the unscaled viewport of page 1 of the document at a url: <<width, height>>
PageSize(u) == IF u = 1 THEN <<612, 792>> ELSE <<595, 842>>

(***************************************************************************)
(* Program constants (hundredths).                                         *)
(***************************************************************************)
ZoomMin == 100
ZoomMax == 200
ZoomStep == 25
\* Math.max(1.5, deviceRatio)
MinOutputScale == 150
\* the window's height and the page's sections in the wheel specification
ViewportHeight == 1000
SectionCount == 3
\* Math.max(..., 40): the least thumb length of both scrollbars
MinThumbPx == 40

VARIABLES
    \* ---- PdfViewer: React state, props and the DOM around it
    mounted,          \* the component is mounted
    url,              \* the url prop
    zoom,             \* useState(1), in hundredths
    containerWidth,   \* containerRef.current.clientWidth
    containerHeight,  \* containerRef.current.clientHeight
    devicePixelRatio, \* window.devicePixelRatio, in hundredths
    \* ---- PdfViewer: refs
    currentUrlRef,    \* currentUrlRef.current
    pdfDocRef,        \* pdfDocRef.current: the session whose load made the document, 0 = null
    renderTaskRef,    \* renderTaskRef.current: the session whose task it is, 0 = null
    baseScaleRef,     \* baseScaleRef.current, <<n, d>>
    \* ---- the current render effect's closure
    loadingTask,      \* let loadingTask: the session whose load it is, 0 = null
    timeoutPending,   \* the 50 ms timer (timeoutId) is pending
    retryCur,         \* pending 100 ms retry timers of the current effect
    retryStale,       \* pending 100 ms retry timers of effects already cleaned up
    \* ---- render sessions (suspended renderPdf invocations) and pdf.js objects
    sess,             \* per session: pc, isCancelled of its effect, captured containerHeight, its page's document
    docState,         \* per session: the document load it started
    docUrl,           \* per session: the url that load was given
    taskState,        \* per session: the RenderTask it started
    canvas,           \* the canvas: last writer, pixel size, CSS size, contents
    errorLog,         \* console.error calls, per session that made them
    \* ---- PdfViewer: the scroll area (.pdf-scroll-area) and its scrollbar
    scrollTop,        \* scrollAreaRef.current.scrollTop
    scrollLeft,       \* scrollAreaRef.current.scrollLeft, <<n, d>>
    thumbHeight,      \* useState(0), <<n, d>>
    thumbTop,         \* useState(0), <<n, d>>
    scrollEventPending, \* a scroll event of the scroll area waits for dispatch
    \* ---- App: the page around the viewer
    scrollY,          \* window.scrollY
    isScrolling,      \* isScrolling.current
    currentSection,   \* currentSection.current
    wheelTimeout,     \* the pending 10 ms timer: the deltaY of its event, 0 = none
    animations,       \* the smoothScrollTo loops that wait for a frame
    lastWheel,        \* the wheel event dispatched last, as its handlers left it
    \* ---- PdfViewer: the drag session of its scrollbar thumb
    isDragging,       \* useState(false)
    dragStartY,       \* dragStartY.current, <<n, d>>
    dragStartScroll,  \* dragStartScroll.current
    \* ---- CustomScrollbar: the page-level scrollbar and the window it reads
    innerHeight,      \* window.innerHeight
    sectionHeight,    \* the height of each of the page's sections
    isEdge,           \* useState(false)
    barThumbHeight,   \* useState(0), <<n, d>>
    barThumbTop,      \* useState(0), <<n, d>>
    barSeenThumbTop,  \* thumbTop as the closure of updateScrollbar captured it
    isLight,          \* useState(true)
    barIsDragging,    \* useState(false)
    barDragStartY,    \* dragStartY.current, <<n, d>>
    barDragStartScroll, \* dragStartScroll.current
    \* ---- App: the contact cipher
    plain,            \* the string given to encode, in character codes
    codes,            \* a code array
    decoded,          \* the string decode returned, in character codes
    \* ---- the pointer in the scrollbar specification: no program state
    pointerOn,        \* the scrollbar the pointer works on
    gestures,         \* presses of the pointer so far
    pointerY,         \* where the pointer is while its button is held, <<n, d>>
    \* ---- budgets of the specifications: no program state
    reruns,           \* render effects set up after the first
    resizeCount       \* window resize events so far

viewerVars == <<mounted, url, zoom, containerWidth, containerHeight, devicePixelRatio,
                currentUrlRef, pdfDocRef, renderTaskRef, baseScaleRef, loadingTask,
                timeoutPending, retryCur, retryStale, sess, docState, docUrl, taskState,
                canvas, errorLog>>
scrollVars == <<scrollTop, scrollLeft, thumbHeight, thumbTop, scrollEventPending>>
pageVars == <<scrollY, isScrolling, currentSection, wheelTimeout, animations, lastWheel>>
dragVars == <<isDragging, dragStartY, dragStartScroll>>
barVars == <<innerHeight, sectionHeight, isEdge, barThumbHeight, barThumbTop, barSeenThumbTop,
             isLight, barIsDragging, barDragStartY, barDragStartScroll>>
cipherVars == <<plain, codes, decoded>>
otherVars == <<dragVars, barVars, cipherVars, pointerOn, gestures, pointerY>>
budgetVars == <<reruns, resizeCount>>

vars == <<viewerVars, scrollVars, pageVars, otherVars, budgetVars>>

(***************************************************************************)
(* Errors a promise of pdf.js may reject with.  The catch block of         *)
(* renderPdf reads the name only; the cause is kept to tell the log        *)
(* entries apart.                                                          *)
(***************************************************************************)
RenderingCancelledException ==
    [name |-> "RenderingCancelledException", cause |-> "render-cancelled"]
\* loadingTask.destroy() on a load in flight: pdf.js rejects with a plain Error
LoadAborted == [name |-> "Error", cause |-> "load-destroyed"]
LoadError == [name |-> "InvalidPDFException", cause |-> "load-failed"]
PageError == [name |-> "Error", cause |-> "page-failed"]
RenderError == [name |-> "Error", cause |-> "render-failed"]

IdleSession == [pc |-> "idle", isCancelled |-> FALSE, containerHeight |-> 0, page |-> 0]
\* an invocation that has returned: its locals are gone
DoneSession == [pc |-> "done", isCancelled |-> FALSE, containerHeight |-> 0, page |-> 0]
\* no wheel event yet
NoWheel == [target |-> "none", deltaY |-> 0, defaultPrevented |-> FALSE,
            propagationStopped |-> FALSE]
BlankCanvas == [writer |-> 0, width |-> 300, height |-> 150,
                cssWidth |-> <<0, 1>>, cssHeight |-> <<0, 1>>, content |-> "empty"]


(***************************************************************************)
(* Helpers.                                                                *)
(***************************************************************************)
Min(a, b) == IF a < b THEN a ELSE b
Max(a, b) == IF a > b THEN a ELSE b
Abs(n) == IF n < 0 THEN -n ELSE n
Clamp(v, lo, hi) == Max(lo, Min(v, hi))
\* the greatest common divisor, by Euclid's algorithm
Gcd[a \in Nat, b \in Nat] == IF b = 0 THEN a ELSE Gcd[b, a % b]
\* the number n / d in lowest terms (d > 0)
Norm[x \in Int \X Nat] == LET g == Gcd[Abs(x[1]), x[2]] IN <<x[1] \div g, x[2] \div g>>
\* the product of two scales
Mul(x, y) == Norm[<<x[1] * y[1], x[2] * y[2]>>]
\* a / b = c / d, for scales <<n, d>> with d > 0
ScaleEq(x, y) == x[1] * y[2] = y[1] * x[2]
\* Math.floor of a scale that is not negative
Floor(x) == x[1] \div x[2]
\* the least integer that is no less than a scale that is not negative
Ceil(x) == (x[1] + x[2] - 1) \div x[2]

\* sums, differences and order of scales
Add(x, y) == Norm[<<x[1] * y[2] + y[1] * x[2], x[2] * y[2]>>]
Sub(x, y) == Norm[<<x[1] * y[2] - y[1] * x[2], x[2] * y[2]>>]
Less(x, y) == x[1] * y[2] < y[1] * x[2]
RMin(x, y) == IF Less(x, y) THEN x ELSE y
RMax(x, y) == IF Less(x, y) THEN y ELSE x
\* the whole number n as a scale
Whole(n) == <<n, 1>>

\* the next free session: sessions are taken in order
NewId == Cardinality({s \in Sessions : sess[s].pc # "idle"}) + 1

(***************************************************************************)
(* renderPdf, lines 175-185: the catch block.  Every error object of       *)
(* pdf.js is an object with a name, so the first three conjuncts hold and  *)
(* the name decides.                                                       *)
(***************************************************************************)
Catch(log, s, error) ==
    IF error.name # "RenderingCancelledException"
    THEN [log EXCEPT ![s] = Append(@, error.cause)]
    ELSE log

(***************************************************************************)
(* RenderTask.cancel(), as called at lines 78-85 and 208-215: a running    *)
(* task stops and its promise rejects with RenderingCancelledException, so *)
(* its session resumes in the catch block and ends.  On a task that has    *)
(* ended already cancel() does nothing.                                    *)
(***************************************************************************)
Running(t) == t # 0 /\ taskState[t] = "running"
CancelTask(tasks, t) == IF Running(t) THEN [tasks EXCEPT ![t] = "cancelled"] ELSE tasks
SessAfterCancel(ss, t) == IF Running(t) THEN [ss EXCEPT ![t] = DoneSession] ELSE ss
LogAfterCancel(log, t) ==
    IF Running(t) THEN Catch(log, t, RenderingCancelledException) ELSE log

\* PDFDocumentProxy.destroy(), lines 56, 95, 225
DestroyDoc(docs, d) ==
    IF d # 0 /\ docs[d] = "loaded" THEN [docs EXCEPT ![d] = "destroyed"] ELSE docs
\* PDFDocumentLoadingTask.destroy(), line 204
DestroyLoad(docs, d) ==
    IF d = 0 THEN docs
    ELSE IF docs[d] = "loading" THEN [docs EXCEPT ![d] = "aborted"]
    ELSE DestroyDoc(docs, d)

(***************************************************************************)
(* renderPdf, lines 107-125: the scales and the two viewports.             *)
(***************************************************************************)
\* a base scale that takes the zoom in
Mutant_BaseScaleWithZoom(ch, pageHeight) == Norm[<<ch * zoom, pageHeight * 100>>]
CalculatedBaseScale(ch, pageHeight) == Norm[<<ch, pageHeight>>]
DisplayScale(base, z) == Mul(base, <<z, 100>>)
\* in hundredths
OutputScale(dpr) ==
    LET deviceRatio == IF dpr = 0 THEN 100 ELSE dpr
    IN  Max(MinOutputScale, deviceRatio)
RenderScale(display, out) == Mul(display, <<out, 100>>)
\* page.getViewport({ scale }): the page's size times the scale
Viewport(page, scale) ==
    [width |-> Mul(<<page[1], 1>>, scale), height |-> Mul(<<page[2], 1>>, scale)]

\* lines 127-145: the canvas as session s leaves it before it starts the task
SizedCanvas(s, page, ch, z, dpr) ==
    LET displayScale == DisplayScale(CalculatedBaseScale(ch, page[2]), z)
        renderViewport == Viewport(page, RenderScale(displayScale, OutputScale(dpr)))
        displayViewport == Viewport(page, displayScale)
    IN  [writer |-> s,
         width |-> Floor(renderViewport.width), height |-> Floor(renderViewport.height),
         cssWidth |-> displayViewport.width, cssHeight |-> displayViewport.height,
         content |-> "white"]

(***************************************************************************)
(* The scroll area.  It fills the container and holds the canvas alone     *)
(* (lines 314-317), so it is as large as the container and its content is  *)
(* as large as the canvas is displayed: the CSS size once a render has set *)
(* one, 300 by 150 before.  The browser keeps the scroll offsets within    *)
(* the range and queues a scroll event when it moves them.                 *)
(***************************************************************************)
ScrollHeight(cv, ch) == Max(ch, IF cv.writer = 0 THEN cv.height ELSE Ceil(cv.cssHeight))
ScrollWidth(cv, cw) == Max(cw, IF cv.writer = 0 THEN cv.width ELSE Ceil(cv.cssWidth))
\* scrollHeight - clientHeight of the scroll area
MaxScrollTop == ScrollHeight(canvas, containerHeight) - containerHeight
ClampLeft(left, maxLeft) == IF left[1] > maxLeft * left[2] THEN <<maxLeft, 1>> ELSE left

\* the canvas is cv and the container cw by ch from now on
Reflow(cv, cw, ch) ==
    LET top == Clamp(scrollTop, 0, ScrollHeight(cv, ch) - ch)
        left == ClampLeft(scrollLeft, ScrollWidth(cv, cw) - cw)
    IN  /\ scrollTop' = top
        /\ scrollLeft' = left
        /\ scrollEventPending' = (scrollEventPending \/ top # scrollTop \/ left # scrollLeft)
        /\ UNCHANGED <<thumbHeight, thumbTop>>

\* updateScrollbar without the least thumb length of line 39
Mutant_UpdateScrollbarNoMinimum(cv, ch, top) ==
    LET scrollHeight == ScrollHeight(cv, ch)
        thumbPx == Norm[<<ch * ch, scrollHeight>>]
        maxScroll == scrollHeight - ch
        scrollPercent == IF maxScroll > 0 THEN <<top, maxScroll>> ELSE <<0, 1>>
        maxThumbTop == <<ch * thumbPx[2] - thumbPx[1], thumbPx[2]>>
    IN  [thumbHeight |-> thumbPx, thumbTop |-> Mul(scrollPercent, maxThumbTop)]

\* lines 29-47: the thumb for scroll offset top, in exact arithmetic
UpdateScrollbar(cv, ch, top) ==
    LET scrollHeight == ScrollHeight(cv, ch)
        thumbPx == IF ch * ch < 40 * scrollHeight THEN <<40, 1>>
                   ELSE Norm[<<ch * ch, scrollHeight>>]
        maxScroll == scrollHeight - ch
        scrollPercent == IF maxScroll > 0 THEN <<top, maxScroll>> ELSE <<0, 1>>
        maxThumbTop == <<ch * thumbPx[2] - thumbPx[1], thumbPx[2]>>
    IN  [thumbHeight |-> thumbPx, thumbTop |-> Mul(scrollPercent, maxThumbTop)]

\* renderPdf with the retry of lines 71-73 left out
Mutant_RenderPdfNoRetry(rc, w, h) ==
    IF h = 0 \/ w = 0
    THEN \* lines 69-75
         /\ retryCur' = rc
         /\ UNCHANGED <<sess, docState, docUrl, taskState, pdfDocRef, renderTaskRef,
                        loadingTask, errorLog>>
    ELSE /\ NewId \in Sessions
         /\ retryCur' = rc
         \* lines 77-85
         /\ taskState' = CancelTask(taskState, renderTaskRef)
         /\ errorLog' = LogAfterCancel(errorLog, renderTaskRef)
         /\ renderTaskRef' = 0
         /\ LET ss == SessAfterCancel(sess, renderTaskRef)
                s == NewId
            IN  IF pdfDocRef = 0
                THEN \* lines 91-93: getDocument(url), await
                     /\ sess' = [ss EXCEPT ![s] = [pc |-> "load", isCancelled |-> FALSE,
                                                   containerHeight |-> h, page |-> 0]]
                     /\ loadingTask' = s
                     /\ docState' = [docState EXCEPT ![s] = "loading"]
                     /\ docUrl' = [docUrl EXCEPT ![s] = url]
                     /\ UNCHANGED pdfDocRef
                ELSE \* line 104: pdfDocRef.current.getPage(1), await
                     /\ sess' = [ss EXCEPT ![s] = [pc |-> "page", isCancelled |-> FALSE,
                                                   containerHeight |-> h, page |-> pdfDocRef]]
                     /\ UNCHANGED <<loadingTask, docState, docUrl, pdfDocRef>>

(***************************************************************************)
(* renderPdf, lines 62-104: one invocation by an effect that is not        *)
(* cancelled, up to its first await.  w and h are the container's size as  *)
(* the invocation reads it, rc the effect's pending retry timers without   *)
(* the one that fired.                                                     *)
(***************************************************************************)
RenderPdf(rc, w, h) ==
    IF h = 0 \/ w = 0
    THEN \* lines 69-75
         /\ rc + retryStale < MaxTimers
         /\ retryCur' = rc + 1
         /\ UNCHANGED <<sess, docState, docUrl, taskState, pdfDocRef, renderTaskRef,
                        loadingTask, errorLog>>
    ELSE /\ NewId \in Sessions
         /\ retryCur' = rc
         \* lines 77-85
         /\ taskState' = CancelTask(taskState, renderTaskRef)
         /\ errorLog' = LogAfterCancel(errorLog, renderTaskRef)
         /\ renderTaskRef' = 0
         /\ LET ss == SessAfterCancel(sess, renderTaskRef)
                s == NewId
            IN  IF pdfDocRef = 0
                THEN \* lines 91-93: getDocument(url), await
                     /\ sess' = [ss EXCEPT ![s] = [pc |-> "load", isCancelled |-> FALSE,
                                                   containerHeight |-> h, page |-> 0]]
                     /\ loadingTask' = s
                     /\ docState' = [docState EXCEPT ![s] = "loading"]
                     /\ docUrl' = [docUrl EXCEPT ![s] = url]
                     /\ UNCHANGED pdfDocRef
                ELSE \* line 104: pdfDocRef.current.getPage(1), await
                     /\ sess' = [ss EXCEPT ![s] = [pc |-> "page", isCancelled |-> FALSE,
                                                   containerHeight |-> h, page |-> pdfDocRef]]
                     /\ UNCHANGED <<loadingTask, docState, docUrl, pdfDocRef>>

(***************************************************************************)
(* The render effect's cleanup (lines 198-218) followed by the effect body *)
(* of the next render with url u (lines 50-60, 189, 196).                  *)
(***************************************************************************)
\* The tasks that the cleanup and the destruction of document d stop: the
\* task renderTaskRef refers to (lines 208-215), and the tasks that still
\* rasterize a page of d, which PDFDocumentProxy.destroy() cancels with the
\* pages of its document (lines 56, 225).
DocTasks(d) ==
    {t \in Sessions : /\ d # 0
                      /\ docState[d] = "loaded"
                      /\ taskState[t] = "running"
                      /\ sess[t].page = d}
Stopped(d) == DocTasks(d) \cup {t \in Sessions : t = renderTaskRef /\ Running(t)}

CleanupSess(d) == [s \in Sessions |->
                     IF s \in Stopped(d) THEN DoneSession
                     ELSE IF sess[s].pc \in {"idle", "done"} THEN sess[s]
                     ELSE [sess[s] EXCEPT !.isCancelled = TRUE]]

Cleanup(d) ==
    /\ sess' = CleanupSess(d)
    /\ taskState' = [t \in Sessions |->
                        IF t \in Stopped(d) THEN "cancelled" ELSE taskState[t]]
    /\ errorLog' = [t \in Sessions |->
                       IF t \in Stopped(d)
                       THEN Catch(errorLog, t, RenderingCancelledException)[t]
                       ELSE errorLog[t]]
    /\ renderTaskRef' = 0
    /\ retryStale' = retryStale + retryCur
    /\ retryCur' = 0

RerunEffect(u) ==
    /\ Cleanup(IF currentUrlRef # u THEN pdfDocRef ELSE 0)
    /\ LET docs == DestroyLoad(docState, loadingTask)
       IN  IF currentUrlRef # u
           THEN /\ docState' = DestroyDoc(docs, pdfDocRef)
                /\ pdfDocRef' = 0
           ELSE /\ docState' = docs
                /\ UNCHANGED pdfDocRef
    /\ currentUrlRef' = u
    /\ loadingTask' = 0
    /\ timeoutPending' = TRUE


(***************************************************************************)
(* CustomScrollbar (src/unnamed/part_002): the page-level scrollbar.  The  *)
(* page is SectionCount sections of one height, the first a .grid-section  *)
(* (light), then an .index-section and a .resume-section (dark).           *)
(***************************************************************************)
\* window sizes and section heights: <<innerHeight, height of a section>>
PageLayouts == {<<1000, 1000>>, <<250, 1000>>}
\* document.documentElement.scrollHeight
DocHeight(sh) == SectionCount * sh
\* lines 28 and 49
TrackPadding(edge) == IF edge THEN 10 ELSE 4
TopPadding(edge) == IF edge THEN 5 ELSE 2
\* lines 33-34: the thumb's length
BarThumbPx(docHeight, viewHeight, edge) ==
    LET trackHeight == viewHeight - TrackPadding(edge)
    IN  IF viewHeight * trackHeight < MinThumbPx * docHeight THEN Whole(MinThumbPx)
        ELSE Norm[<<viewHeight * trackHeight, docHeight>>]
\* the thumb's offset, were its travel the window's height less its length
Mutant_BarThumbOffsetOverViewHeight(docHeight, viewHeight, edge, y) ==
    LET maxScroll == docHeight - viewHeight
        scrollPercent == IF maxScroll > 0 THEN <<y, maxScroll>> ELSE <<0, 1>>
    IN  Mul(scrollPercent, Sub(Whole(viewHeight), BarThumbPx(docHeight, viewHeight, edge)))
\* lines 38-41: the thumb's offset when the window is scrolled to y
BarThumbOffset(docHeight, viewHeight, edge, y) ==
    LET trackHeight == viewHeight - TrackPadding(edge)
        maxScroll == docHeight - viewHeight
        scrollPercent == IF maxScroll > 0 THEN <<y, maxScroll>> ELSE <<0, 1>>
        maxThumbTop == Sub(Whole(trackHeight), BarThumbPx(docHeight, viewHeight, edge))
    IN  Mul(scrollPercent, maxThumbTop)
\* line 58
IsSectionLight(i) == i = 0
\* lines 57-63: what the span from spanTop to spanBottom shares with section
\* i, whose rectangle starts i * sh - y below the viewport's top
Overlap(i, sh, y, spanTop, spanBottom) ==
    LET rectTop == Whole(i * sh - y)
        rectBottom == Whole(i * sh - y + sh)
        overlapTop == RMax(spanTop, rectTop)
        overlapBottom == RMin(spanBottom, rectBottom)
    IN  RMax(Whole(0), Sub(overlapBottom, overlapTop))
\* a kind of section, the sections' height, the window's scroll offset and
\* the span measured
OverlapArgs ==
    [light : BOOLEAN, sh : Nat, y : Int, spanTop : Int \X Nat, spanBottom : Int \X Nat]
\* lines 53-70: the sum of the overlaps with the light or the dark sections
SumOverlap[i \in 0 .. SectionCount, a \in OverlapArgs] ==
    IF i = SectionCount THEN Whole(0)
    ELSE LET rest == SumOverlap[i + 1, a]
         IN  IF IsSectionLight(i) = a.light
             THEN Add(Overlap(i, a.sh, a.y, a.spanTop, a.spanBottom), rest)
             ELSE rest
\* lines 48-76: the state of isLight after updateScrollbar, for a thumb of
\* length thumbPx that the closure believes at offset seenTop
NextIsLight(sh, edge, y, thumbPx, seenTop, light) ==
    LET thumbTopInViewport == Add(seenTop, Whole(TopPadding(edge)))
        thumbBottomInViewport == Add(thumbTopInViewport, thumbPx)
        Pixels(l) == SumOverlap[0, [light |-> l, sh |-> sh, y |-> y,
                                    spanTop |-> thumbTopInViewport,
                                    spanBottom |-> thumbBottomInViewport]]
        darkPixels == Pixels(FALSE)
        totalOverlap == Add(darkPixels, Pixels(TRUE))
    IN  IF Less(Whole(0), totalOverlap)
        THEN Less(totalOverlap, Mul(Whole(2), darkPixels))
        ELSE light

\* lines 24-77: updateScrollbar of the closure that captured seenTop, for a
\* window vh high over sections sh high, scrolled to y
BarUpdateScrollbar(vh, sh, edge, y, seenTop) ==
    LET thumbPx == BarThumbPx(DocHeight(sh), vh, edge)
    IN  /\ barThumbHeight' = thumbPx
        /\ barThumbTop' = BarThumbOffset(DocHeight(sh), vh, edge, y)
        /\ isLight' = NextIsLight(sh, edge, y, thumbPx, seenTop, isLight)

\* line 152: the class of the thumb's style
ThumbClass(light) == IF light THEN "on-light" ELSE "on-dark"

\* the scrollbar after it has mounted in a window scrolled to the top: the
\* effect of lines 23-87 has run updateScrollbar once, with thumbTop 0
BarInitWith(layouts) ==
    /\ \E l \in layouts : innerHeight = l[1] /\ sectionHeight = l[2]
    /\ isEdge = FALSE
    /\ barThumbHeight = BarThumbPx(DocHeight(sectionHeight), innerHeight, FALSE)
    /\ barThumbTop = <<0, 1>>
    /\ barSeenThumbTop = <<0, 1>>
    /\ isLight = NextIsLight(sectionHeight, FALSE, 0, barThumbHeight, <<0, 1>>, TRUE)
    /\ barIsDragging = FALSE
    /\ barDragStartY = <<0, 1>>
    /\ barDragStartScroll = 0

\* PdfViewer, lines 24-26: no drag session
DragInit ==
    /\ isDragging = FALSE
    /\ dragStartY = <<0, 1>>
    /\ dragStartScroll = 0

(***************************************************************************)
(* The contact cipher of App.tsx (src/unnamed/part_001, lines 676-755) and *)
(* the encode of its reference (src/unnamed/part_000).  A string is the    *)
(* sequence of its UTF-16 character codes; str[i] of the program is        *)
(* str[i + 1] here.                                                        *)
(***************************************************************************)
\* "visibility", "Keyframes", "9rem", "boxShadow", "Quantum", "2px", "maxHeight"
_css1 == <<118, 105, 115, 105, 98, 105, 108, 105, 116, 121>>
_css2 == <<75, 101, 121, 102, 114, 97, 109, 101, 115>>
_attr == <<57, 114, 101, 109>>
_prop == <<98, 111, 120, 83, 104, 97, 100, 111, 119>>
_anim == <<81, 117, 97, 110, 116, 117, 109>>
_unit == <<50, 112, 120>>
_mode == <<109, 97, 120, 72, 101, 105, 103, 104, 116>>
\* lines 734-735
_k == <<_css1[1], _css2[1], _attr[1], _prop[3], _anim[1], _unit[1], _mode[1]>>

\* lines 737-746
obfuscatedContact ==
    [email1 |-> <<108, 128, 121, 120, 109, 122, 52, 124, 57, 125, 105, 109, 76, 117, 119,
                  127, 114, 115, 115, 119, 52, 101, 122, 115>>,
     email2 |-> <<108, 133, 125, 56, 68, 127, 108, 119, 57, 105, 101>>,
     phone |-> <<42, 66, 61, 60, 45, 44, 62, 55, 67, 51, 61, 61, 60, 63>>,
     phoneHref |-> <<45, 60, 61, 59, 60, 68, 59, 58, 68, 63, 52, 61>>,
     github |-> <<108, 56, 128, 49, 123>>]
\* the plaintexts the reference documents: "justin.z.wei@outlook.com",
\* "jzw4@sfu.ca", "(778) 858-9909", "+17788589909", "j-z-w"
documentedContact ==
    [email1 |-> <<106, 117, 115, 116, 105, 110, 46, 122, 46, 119, 101, 105, 64, 111, 117,
                  116, 108, 111, 111, 107, 46, 99, 111, 109>>,
     email2 |-> <<106, 122, 119, 52, 64, 115, 102, 117, 46, 99, 97>>,
     phone |-> <<40, 55, 55, 56, 41, 32, 56, 53, 56, 45, 57, 57, 48, 57>>,
     phoneHref |-> <<43, 49, 55, 55, 56, 56, 53, 56, 57, 57, 48, 57>>,
     github |-> <<106, 45, 122, 45, 119>>]
ContactNames == {"email1", "email2", "phone", "phoneHref", "github"}

\* String.fromCharCode(n): the code unit n modulo 2^16
FromCharCode(n) == n % 65536
\* line 751: the shift of position i (counted from 0) under a key
Shift(k, i) == (k[(i % Len(k)) + 1] % 13) + 1
\* a decode that takes the shift of the first position everywhere
Mutant_DecodeWithOneShift(cs) == [j \in 1 .. Len(cs) |-> FromCharCode(cs[j] - Shift(_k, 0))]
\* lines 748-755
decode(cs) == [j \in 1 .. Len(cs) |-> FromCharCode(cs[j] - Shift(_k, j - 1))]
\* the reference's key, "vK9xQ2m", and its encode
key == <<118, 75, 57, 120, 81, 50, 109>>
encode(str) == [j \in 1 .. Len(str) |-> str[j] + Shift(key, j - 1)]

\* the strings the cipher is given: up to MaxLen characters of the printable
\* ASCII range, its two ends and a letter
MaxLen == 8
CipherChars == {32, 77, 126}

CipherInit ==
    /\ plain = <<>>
    /\ codes = <<>>
    /\ decoded = <<>>

(***************************************************************************)
(* The initial state: the component has mounted, its effects have run, the *)
(* 50 ms timer is pending, no promise is in flight.                        *)
(***************************************************************************)
InitWith(urls, sizes, ratios) ==
    /\ mounted = TRUE
    /\ url \in urls
    /\ zoom = ZoomMin
    /\ \E c \in sizes : containerWidth = c[1] /\ containerHeight = c[2]
    /\ devicePixelRatio \in ratios
    /\ currentUrlRef = url
    /\ pdfDocRef = 0
    /\ renderTaskRef = 0
    /\ baseScaleRef = <<1, 1>>
    /\ loadingTask = 0
    /\ timeoutPending = TRUE
    /\ retryCur = 0
    /\ retryStale = 0
    /\ scrollTop = 0
    /\ scrollLeft = <<0, 1>>
    /\ thumbHeight = <<0, 1>>
    /\ thumbTop = <<0, 1>>
    /\ scrollEventPending = FALSE
    /\ scrollY = 0
    /\ isScrolling = FALSE
    /\ currentSection = 0
    /\ wheelTimeout = 0
    /\ animations = <<>>
    /\ lastWheel = NoWheel
    /\ sess = [s \in Sessions |-> IdleSession]
    /\ docState = [s \in Sessions |-> "none"]
    /\ docUrl = [s \in Sessions |-> 0]
    /\ taskState = [s \in Sessions |-> "none"]
    /\ canvas = BlankCanvas
    /\ errorLog = [s \in Sessions |-> <<>>]
    /\ reruns = 0
    /\ resizeCount = 0

\* the scrollbars and the cipher are left alone
OtherIdle ==
    /\ DragInit
    /\ BarInitWith({<<ViewportHeight, ViewportHeight>>})
    /\ CipherInit
    /\ pointerOn = "viewer"
    /\ gestures = 0
    /\ pointerY = <<0, 1>>

Init == InitWith(Urls, LifecycleSizes, {100}) /\ OtherIdle

(***************************************************************************)
(* Who calls renderPdf.                                                    *)
(***************************************************************************)
\* line 189: setTimeout(renderPdf, 50) fires
InitialTimer ==
    /\ timeoutPending
    /\ timeoutPending' = FALSE
    /\ RenderPdf(retryCur, containerWidth, containerHeight)
    /\ UNCHANGED <<mounted, url, zoom, containerWidth, containerHeight, devicePixelRatio,
                   currentUrlRef, baseScaleRef, retryStale, canvas>>
    /\ UNCHANGED scrollVars
    /\ UNCHANGED <<pageVars, otherVars>>

\* line 72: setTimeout(renderPdf, 100) of the current effect fires
RetryTimer ==
    /\ retryCur > 0
    /\ RenderPdf(retryCur - 1, containerWidth, containerHeight)
    /\ UNCHANGED <<mounted, url, zoom, containerWidth, containerHeight, devicePixelRatio,
                   currentUrlRef, baseScaleRef, timeoutPending, retryStale, canvas>>
    /\ UNCHANGED scrollVars
    /\ UNCHANGED <<pageVars, otherVars>>

\* line 72, for an effect already cleaned up: renderPdf returns at line 63 or 64
StaleRetryTimer ==
    /\ retryStale > 0
    /\ retryStale' = retryStale - 1
    /\ UNCHANGED <<mounted, url, zoom, containerWidth, containerHeight, devicePixelRatio,
                   currentUrlRef, pdfDocRef, renderTaskRef, baseScaleRef, loadingTask,
                   timeoutPending, retryCur, sess, docState, docUrl, taskState, canvas,
                   errorLog>>
    /\ UNCHANGED scrollVars
    /\ UNCHANGED <<pageVars, otherVars>>

\* lines 191-196: the window is resized, the container is w by h afterwards
HandleResize(w, h) ==
    /\ mounted
    /\ containerWidth' = w
    /\ containerHeight' = h
    /\ RenderPdf(retryCur, w, h)
    /\ UNCHANGED <<mounted, url, zoom, devicePixelRatio, currentUrlRef, baseScaleRef,
                   timeoutPending, retryStale, canvas>>
    /\ Reflow(canvas, w, h)
    /\ UNCHANGED <<pageVars, otherVars>>

\* the browser lays the container out anew without a resize event
Layout(w, h) ==
    /\ mounted
    /\ <<w, h>> # <<containerWidth, containerHeight>>
    /\ containerWidth' = w
    /\ containerHeight' = h
    /\ UNCHANGED <<mounted, url, zoom, devicePixelRatio, currentUrlRef, pdfDocRef,
                   renderTaskRef, baseScaleRef, loadingTask, timeoutPending, retryCur,
                   retryStale, sess, docState, docUrl, taskState, canvas, errorLog>>
    /\ Reflow(canvas, w, h)
    /\ UNCHANGED <<pageVars, otherVars>>

(***************************************************************************)
(* The continuations of renderPdf.                                         *)
(***************************************************************************)
\* a continuation of the load that does not look at isCancelled
Mutant_LoadResolveKeepsDocument(s) ==
    /\ sess[s].pc = "load"
    /\ docState[s] = "loading"
    /\ docState' = [docState EXCEPT ![s] = "loaded"]
    /\ pdfDocRef' = s
    /\ loadingTask' = 0
    /\ sess' = [sess EXCEPT ![s].pc = "page", ![s].page = s]
    /\ UNCHANGED <<mounted, url, zoom, containerWidth, containerHeight, devicePixelRatio,
                   currentUrlRef, renderTaskRef, baseScaleRef, timeoutPending, retryCur,
                   retryStale, docUrl, taskState, canvas, errorLog>>
    /\ UNCHANGED scrollVars
    /\ UNCHANGED <<pageVars, otherVars>>

\* lines 93-104: loadingTask.promise resolves
LoadResolve(s) ==
    /\ sess[s].pc = "load"
    /\ docState[s] = "loading"
    /\ IF sess[s].isCancelled
       THEN \* lines 94-97
            /\ docState' = [docState EXCEPT ![s] = "destroyed"]
            /\ sess' = [sess EXCEPT ![s] = DoneSession]
            /\ UNCHANGED <<pdfDocRef, loadingTask>>
       ELSE /\ docState' = [docState EXCEPT ![s] = "loaded"]
            /\ pdfDocRef' = s
            /\ loadingTask' = 0
            /\ sess' = [sess EXCEPT ![s].pc = "page", ![s].page = s]
    /\ UNCHANGED <<mounted, url, zoom, containerWidth, containerHeight, devicePixelRatio,
                   currentUrlRef, renderTaskRef, baseScaleRef, timeoutPending, retryCur,
                   retryStale, docUrl, taskState, canvas, errorLog>>
    /\ UNCHANGED scrollVars
    /\ UNCHANGED <<pageVars, otherVars>>

\* line 93 throws: the load failed, or it was destroyed while in flight
LoadReject(s) ==
    /\ sess[s].pc = "load"
    /\ docState[s] \in {"loading", "aborted"}
    /\ docState' = [docState EXCEPT ![s] = IF @ = "loading" THEN "failed" ELSE @]
    /\ errorLog' = Catch(errorLog, s, IF docState[s] = "aborted" THEN LoadAborted ELSE LoadError)
    /\ sess' = [sess EXCEPT ![s] = DoneSession]
    /\ UNCHANGED <<mounted, url, zoom, containerWidth, containerHeight, devicePixelRatio,
                   currentUrlRef, pdfDocRef, renderTaskRef, baseScaleRef, loadingTask,
                   timeoutPending, retryCur, retryStale, docUrl, taskState, canvas>>
    /\ UNCHANGED scrollVars
    /\ UNCHANGED <<pageVars, otherVars>>

\* lines 104-158: getPage resolves; the canvas is sized and the task started.
\* pdf.js hands every getPage(1) of one document the same cached promise, so
\* the invocations waiting for it resume in the order they asked.
PageResolve(s) ==
    /\ sess[s].pc = "page"
    /\ \A r \in Sessions : ~(r < s /\ sess[r].pc = "page" /\ sess[r].page = sess[s].page)
    /\ IF sess[s].isCancelled
       THEN \* line 105
            /\ sess' = [sess EXCEPT ![s] = DoneSession]
            /\ UNCHANGED <<baseScaleRef, canvas, taskState, renderTaskRef, scrollVars>>
       ELSE LET page == PageSize(docUrl[sess[s].page])
            IN  /\ baseScaleRef' = CalculatedBaseScale(sess[s].containerHeight, page[2])
                /\ canvas' = SizedCanvas(s, page, sess[s].containerHeight, zoom,
                                         devicePixelRatio)
                /\ Reflow(SizedCanvas(s, page, sess[s].containerHeight, zoom,
                                      devicePixelRatio), containerWidth, containerHeight)
                /\ taskState' = [taskState EXCEPT ![s] = "running"]
                /\ renderTaskRef' = s
                /\ sess' = [sess EXCEPT ![s].pc = "render"]
    /\ UNCHANGED <<mounted, url, zoom, containerWidth, containerHeight, devicePixelRatio,
                   currentUrlRef, pdfDocRef, loadingTask, timeoutPending, retryCur,
                   retryStale, docState, docUrl, errorLog>>
    /\ UNCHANGED <<pageVars, otherVars>>

\* line 104 throws
PageReject(s) ==
    /\ sess[s].pc = "page"
    /\ errorLog' = Catch(errorLog, s, PageError)
    /\ sess' = [sess EXCEPT ![s] = DoneSession]
    /\ UNCHANGED <<mounted, url, zoom, containerWidth, containerHeight, devicePixelRatio,
                   currentUrlRef, pdfDocRef, renderTaskRef, baseScaleRef, loadingTask,
                   timeoutPending, retryCur, retryStale, docState, docUrl, taskState,
                   canvas>>
    /\ UNCHANGED scrollVars
    /\ UNCHANGED <<pageVars, otherVars>>

\* lines 158-174: renderTask.promise resolves, the page is on the canvas
RenderResolve(s) ==
    /\ sess[s].pc = "render"
    /\ taskState[s] = "running"
    /\ taskState' = [taskState EXCEPT ![s] = "done"]
    /\ canvas' = [canvas EXCEPT !.writer = s, !.content = "page"]
    /\ renderTaskRef' = 0
    /\ sess' = [sess EXCEPT ![s] = DoneSession]
    /\ IF sess[s].isCancelled
       THEN \* line 161
            UNCHANGED scrollVars
       ELSE \* lines 163-174
            LET scrollWidth == ScrollWidth(canvas, containerWidth)
                left == IF scrollWidth > containerWidth
                        THEN Norm[<<scrollWidth - containerWidth, 2>>]
                        ELSE scrollLeft
                bar == UpdateScrollbar(canvas, containerHeight, scrollTop)
            IN  /\ scrollLeft' = left
                /\ scrollEventPending' = (scrollEventPending \/ left # scrollLeft)
                /\ thumbHeight' = bar.thumbHeight
                /\ thumbTop' = bar.thumbTop
                /\ UNCHANGED scrollTop
    /\ UNCHANGED <<mounted, url, zoom, containerWidth, containerHeight, devicePixelRatio,
                   currentUrlRef, pdfDocRef, baseScaleRef, loadingTask, timeoutPending,
                   retryCur, retryStale, docState, docUrl, errorLog>>
    /\ UNCHANGED <<pageVars, otherVars>>

\* lines 231-238: the scroll area's scroll event reaches updateScrollbar
ScrollEvent ==
    /\ mounted
    /\ scrollEventPending
    /\ scrollEventPending' = FALSE
    /\ LET bar == UpdateScrollbar(canvas, containerHeight, scrollTop)
       IN  thumbHeight' = bar.thumbHeight /\ thumbTop' = bar.thumbTop
    /\ UNCHANGED <<viewerVars, scrollTop, scrollLeft>>
    /\ UNCHANGED <<pageVars, otherVars>>

\* line 158 throws an error that is no cancellation
RenderReject(s) ==
    /\ sess[s].pc = "render"
    /\ taskState[s] = "running"
    /\ taskState' = [taskState EXCEPT ![s] = "failed"]
    /\ errorLog' = Catch(errorLog, s, RenderError)
    /\ sess' = [sess EXCEPT ![s] = DoneSession]
    /\ UNCHANGED <<mounted, url, zoom, containerWidth, containerHeight, devicePixelRatio,
                   currentUrlRef, pdfDocRef, renderTaskRef, baseScaleRef, loadingTask,
                   timeoutPending, retryCur, retryStale, docState, docUrl, canvas>>
    /\ UNCHANGED scrollVars
    /\ UNCHANGED <<pageVars, otherVars>>

(***************************************************************************)
(* Zoom, url and unmount.                                                  *)
(***************************************************************************)
\* zoomIn without its upper clamp
Mutant_ZoomInNoClamp(z) == z + ZoomStep
\* lines 240-242
ZoomIn(z) == Min(z + ZoomStep, ZoomMax)
ZoomOut(z) == Max(z - ZoomStep, ZoomMin)
ZoomReset(z) == ZoomMin

\* setZoom(z): React renders again when the state changed, and the render
\* effect (dependencies url, zoom) is cleaned up and run again
SetZoom(z) ==
    /\ mounted
    /\ zoom' = z
    /\ IF z # zoom
       THEN RerunEffect(url)
       ELSE UNCHANGED <<sess, taskState, errorLog, renderTaskRef, retryStale, retryCur,
                        docState, pdfDocRef, currentUrlRef, loadingTask, timeoutPending>>
    /\ UNCHANGED <<mounted, url, containerWidth, containerHeight, devicePixelRatio,
                   baseScaleRef, docUrl, canvas>>
    /\ UNCHANGED scrollVars
    /\ UNCHANGED <<pageVars, otherVars>>

HandleZoomIn == SetZoom(ZoomIn(zoom))
HandleZoomOut == SetZoom(ZoomOut(zoom))
HandleReset == SetZoom(ZoomReset(zoom))

\* the parent passes another url
SetUrl(u) ==
    /\ mounted
    /\ u # url
    /\ url' = u
    /\ RerunEffect(u)
    /\ UNCHANGED <<mounted, zoom, containerWidth, containerHeight, devicePixelRatio,
                   baseScaleRef, docUrl, canvas>>
    /\ UNCHANGED scrollVars
    /\ UNCHANGED <<pageVars, otherVars>>

\* lines 198-218, then lines 223-228
Unmount ==
    /\ mounted
    /\ mounted' = FALSE
    /\ Cleanup(pdfDocRef)
    /\ timeoutPending' = FALSE
    /\ docState' = DestroyDoc(DestroyLoad(docState, loadingTask), pdfDocRef)
    /\ pdfDocRef' = 0
    /\ UNCHANGED <<url, zoom, containerWidth, containerHeight, devicePixelRatio,
                   currentUrlRef, baseScaleRef, loadingTask, docUrl, canvas>>
    /\ scrollEventPending' = FALSE
    /\ UNCHANGED <<scrollTop, scrollLeft, thumbHeight, thumbTop>>
    /\ UNCHANGED <<pageVars, otherVars>>

(***************************************************************************)
(* Spec: every event of the viewer in every order, pdf.js failures         *)
(* included, with the effect re-runs capped.                               *)
(***************************************************************************)
Spend == reruns' = reruns + (IF zoom' # zoom \/ url' # url THEN 1 ELSE 0)
KeepBudget == UNCHANGED budgetVars

UserZoomIn == reruns < MaxReruns /\ HandleZoomIn /\ Spend /\ UNCHANGED resizeCount
UserZoomOut == reruns < MaxReruns /\ HandleZoomOut /\ Spend /\ UNCHANGED resizeCount
UserReset == reruns < MaxReruns /\ HandleReset /\ Spend /\ UNCHANGED resizeCount
ParentSetUrl == reruns < MaxReruns /\ (\E u \in Urls : SetUrl(u)) /\ Spend
                /\ UNCHANGED resizeCount

Next ==
    \/ InitialTimer /\ KeepBudget
    \/ RetryTimer /\ KeepBudget
    \/ StaleRetryTimer /\ KeepBudget
    \/ (\E c \in LifecycleSizes : HandleResize(c[1], c[2])) /\ KeepBudget
    \/ (\E c \in LifecycleSizes : Layout(c[1], c[2])) /\ KeepBudget
    \/ (\E s \in Sessions : LoadResolve(s)) /\ KeepBudget
    \/ (\E s \in Sessions : LoadReject(s)) /\ KeepBudget
    \/ (\E s \in Sessions : PageResolve(s)) /\ KeepBudget
    \/ (\E s \in Sessions : PageReject(s)) /\ KeepBudget
    \/ (\E s \in Sessions : RenderResolve(s)) /\ KeepBudget
    \/ (\E s \in Sessions : RenderReject(s)) /\ KeepBudget
    \/ ScrollEvent /\ KeepBudget
    \/ UserZoomIn
    \/ UserZoomOut
    \/ UserReset
    \/ ParentSetUrl
    \/ Unmount /\ KeepBudget

Spec == Init /\ [][Next]_vars


(***************************************************************************)
(* LiveSpec: the viewer is neither superseded nor torn down and pdf.js     *)
(* does not fail.  The browser's event loop runs every timer that is due   *)
(* and settles every promise, hence the weak fairness; the user resizes    *)
(* the window finitely often.                                              *)
(***************************************************************************)
LiveResize ==
    /\ resizeCount < MaxResize
    /\ \E c \in LifecycleSizes : HandleResize(c[1], c[2])
    /\ resizeCount' = resizeCount + 1
    /\ UNCHANGED reruns

LiveInit == InitWith({1}, LifecycleSizes, {100}) /\ OtherIdle

LiveNext ==
    \/ InitialTimer /\ KeepBudget
    \/ RetryTimer /\ KeepBudget
    \/ LiveResize
    \/ (\E c \in LifecycleSizes : Layout(c[1], c[2])) /\ KeepBudget
    \/ (\E s \in Sessions : LoadResolve(s)) /\ KeepBudget
    \/ (\E s \in Sessions : PageResolve(s)) /\ KeepBudget
    \/ (\E s \in Sessions : RenderResolve(s)) /\ KeepBudget
    \/ ScrollEvent /\ KeepBudget

LiveSpec ==
    /\ LiveInit
    /\ [][LiveNext]_vars
    /\ WF_vars(InitialTimer /\ KeepBudget)
    /\ WF_vars(RetryTimer /\ KeepBudget)
    /\ \A s \in Sessions : WF_vars(LoadResolve(s) /\ KeepBudget)
    /\ \A s \in Sessions : WF_vars(PageResolve(s) /\ KeepBudget)
    /\ \A s \in Sessions : WF_vars(RenderResolve(s) /\ KeepBudget)

(***************************************************************************)
(* ScaleSpec: every zoom level, container size, device pixel ratio and     *)
(* document, with the user acting only while no render is under way.       *)
(***************************************************************************)
Quiet == \A s \in Sessions : sess[s].pc \in {"idle", "done"}

ScaleInit == InitWith(Urls, ContainerSizes, DevicePixelRatios) /\ OtherIdle

ScaleNext ==
    \/ InitialTimer /\ KeepBudget
    \/ Quiet /\ (\E c \in ContainerSizes : HandleResize(c[1], c[2])) /\ KeepBudget
    \/ (\E s \in Sessions : LoadResolve(s)) /\ KeepBudget
    \/ (\E s \in Sessions : PageResolve(s)) /\ KeepBudget
    \/ (\E s \in Sessions : RenderResolve(s)) /\ KeepBudget
    \/ ScrollEvent /\ KeepBudget
    \/ Quiet /\ HandleZoomIn /\ KeepBudget
    \/ Quiet /\ HandleZoomOut /\ KeepBudget
    \/ Quiet /\ HandleReset /\ KeepBudget
    \/ Quiet /\ (\E u \in Urls : SetUrl(u)) /\ KeepBudget

ScaleSpec == ScaleInit /\ [][ScaleNext]_vars

(***************************************************************************)
(* App: the page and its wheel handler.  The page is three sections, each  *)
(* one viewport high (.grid-section, .index-section, .resume-section).     *)
(***************************************************************************)
SectionIndexes == 0 .. SectionCount - 1
OffsetTop(i) == i * ViewportHeight
OffsetHeight(i) == ViewportHeight
MaxScrollY == OffsetTop(SectionCount - 1) + OffsetHeight(SectionCount - 1) - ViewportHeight

\* where a wheel event may hit: the canvas inside .pdf-scroll-area, the
\* controls of .pdf-container outside the scroll area, the rest of the page
WheelTargets == {"pdf-scroll-area", "pdf-controls", "page"}
WheelDeltas == {-150, 150}

\* String(zoom) as React writes it to data-zoom (line 301), in characters
Digits == <<"0", "1", "2", "3", "4", "5", "6", "7", "8", "9">>
\* an attribute that holds the zoom as the label of line 306 shows it, in
\* percent
Mutant_DataZoomAsPercent(z) ==
    <<Digits[(z \div 100) + 1], Digits[((z % 100) \div 10) + 1], Digits[(z % 10) + 1]>>
DataZoom(z) ==
    LET whole == <<Digits[(z \div 100) + 1]>>
        tenths == Digits[((z % 100) \div 10) + 1]
        hundredths == Digits[(z % 10) + 1]
    IN  IF z % 100 = 0 THEN whole
        ELSE IF z % 10 = 0 THEN whole \o <<".", tenths>>
        ELSE whole \o <<".", tenths, hundredths>>

IsDigit(c) == \E d \in 1 .. 10 : Digits[d] = c
DigitValue(c) == (CHOOSE d \in 1 .. 10 : Digits[d] = c) - 1
\* parseFloat of a string of digits with at most one point, in hundredths
\* (digits after the second decimal are dropped); -1 stands for NaN
ParseFloat(str) ==
    LET n == Len(str)
        intLen == CHOOSE k \in 0 .. n :
                      /\ \A i \in 1 .. k : IsDigit(str[i])
                      /\ k = n \/ ~IsDigit(str[k + 1])
        IntValue[k \in 0 .. n] == IF k = 0 THEN 0
                                  ELSE IntValue[k - 1] * 10 + DigitValue(str[k])
        hasPoint == intLen < n /\ str[intLen + 1] = "."
        FracDigit(i) == IF hasPoint /\ intLen + 1 + i <= n /\ IsDigit(str[intLen + 1 + i])
                        THEN DigitValue(str[intLen + 1 + i]) ELSE 0
    IN  IF intLen = 0 /\ ~(hasPoint /\ n >= 2 /\ IsDigit(str[2])) THEN -1
        ELSE IntValue[intLen] * 100 + FracDigit(1) * 10 + FracDigit(2)

\* lines 802-871: the section detectCurrentSection(direction) finds when the
\* window is at y and the current section is cur
VisibleHeight(i, y) ==
    Max(0, Min(OffsetTop(i) + OffsetHeight(i), y + ViewportHeight) - Max(OffsetTop(i), y))
DetectCurrentSection(y, direction, cur) ==
    LET covering == {i \in SectionIndexes : VisibleHeight(i, y) * 10 > 6 * ViewportHeight}
        visibleSections == {i \in SectionIndexes :
                               /\ OffsetTop(i) + OffsetHeight(i) > y
                               /\ OffsetTop(i) < y + ViewportHeight}
        Distance(i) == Abs((2 * y + ViewportHeight) - (2 * OffsetTop(i) + OffsetHeight(i)))
    IN  IF covering # {} THEN CHOOSE i \in covering : \A j \in covering : i <= j
        ELSE IF direction # 0
        THEN IF visibleSections = {} THEN cur
             ELSE IF direction > 0
             THEN CHOOSE i \in visibleSections : \A j \in visibleSections : i >= j
             ELSE CHOOSE i \in visibleSections : \A j \in visibleSections : i <= j
        ELSE CHOOSE i \in SectionIndexes :
                 \A j \in SectionIndexes :
                     Distance(i) < Distance(j) \/ (Distance(i) = Distance(j) /\ i <= j)

\* lines 765-791: smoothScrollTo(target, 800) up to its first frame
SmoothScrollTo(target) ==
    /\ isScrolling' = TRUE
    /\ animations' = Append(animations, [start |-> scrollY, target |-> target, half |-> FALSE])

\* handleWheel without the return of line 901
Mutant_HandleWheelFallsThrough(target, deltaY) ==
    LET inScrollArea == target = "pdf-scroll-area"
        routed == inScrollArea /\ DataZoom(zoom) # <<>> /\ ParseFloat(DataZoom(zoom)) > 100
        top == Clamp(scrollTop + deltaY, 0,
                     ScrollHeight(canvas, containerHeight) - containerHeight)
    IN  /\ target # "page" => mounted
        /\ lastWheel' = [target |-> target, deltaY |-> deltaY, defaultPrevented |-> TRUE,
                         propagationStopped |-> routed]
        /\ IF routed
           THEN /\ scrollTop' = top
                /\ scrollEventPending' = (scrollEventPending \/ top # scrollTop)
           ELSE UNCHANGED <<scrollTop, scrollEventPending>>
        /\ wheelTimeout' = IF isScrolling THEN wheelTimeout ELSE deltaY
        /\ UNCHANGED <<scrollY, isScrolling, currentSection, animations>>
        /\ UNCHANGED <<viewerVars, scrollLeft, thumbHeight, thumbTop, otherVars>>

\* handleWheel that adds deltaY to the scroll offset at every zoom
Mutant_HandleWheelIgnoresZoom(target, deltaY) ==
    LET inScrollArea == target = "pdf-scroll-area"
        top == Clamp(scrollTop + deltaY, 0,
                     ScrollHeight(canvas, containerHeight) - containerHeight)
    IN  /\ target # "page" => mounted
        /\ IF inScrollArea
           THEN /\ lastWheel' = [target |-> target, deltaY |-> deltaY,
                                 defaultPrevented |-> TRUE, propagationStopped |-> TRUE]
                /\ scrollTop' = top
                /\ scrollEventPending' = (scrollEventPending \/ top # scrollTop)
                /\ UNCHANGED <<scrollY, isScrolling, currentSection, wheelTimeout, animations>>
           ELSE /\ lastWheel' = [target |-> target, deltaY |-> deltaY,
                                 defaultPrevented |-> TRUE, propagationStopped |-> FALSE]
                /\ wheelTimeout' = IF isScrolling THEN wheelTimeout ELSE deltaY
                /\ UNCHANGED <<scrollTop, scrollEventPending, scrollY, isScrolling,
                               currentSection, animations>>
        /\ UNCHANGED <<viewerVars, scrollLeft, thumbHeight, thumbTop, otherVars>>

(***************************************************************************)
(* handleWheel, lines 885-913: a wheel event with this deltaY on a target. *)
(* closest(".pdf-scroll-area") finds the scroll area for a target inside   *)
(* it only; the scrollTop setter keeps the offset within the scroll range. *)
(***************************************************************************)
HandleWheel(target, deltaY) ==
    LET inScrollArea == target = "pdf-scroll-area"
        routed == inScrollArea /\ DataZoom(zoom) # <<>> /\ ParseFloat(DataZoom(zoom)) > 100
        top == Clamp(scrollTop + deltaY, 0,
                     ScrollHeight(canvas, containerHeight) - containerHeight)
    IN  /\ target # "page" => mounted
        /\ IF routed
           THEN \* lines 896-901
                /\ lastWheel' = [target |-> target, deltaY |-> deltaY,
                                 defaultPrevented |-> TRUE, propagationStopped |-> TRUE]
                /\ scrollTop' = top
                /\ scrollEventPending' = (scrollEventPending \/ top # scrollTop)
                /\ UNCHANGED <<scrollY, isScrolling, currentSection, wheelTimeout, animations>>
           ELSE \* lines 906-914
                /\ lastWheel' = [target |-> target, deltaY |-> deltaY,
                                 defaultPrevented |-> TRUE, propagationStopped |-> FALSE]
                /\ wheelTimeout' = IF isScrolling THEN wheelTimeout ELSE deltaY
                /\ UNCHANGED <<scrollTop, scrollEventPending, scrollY, isScrolling,
                               currentSection, animations>>
        /\ UNCHANGED <<viewerVars, scrollLeft, thumbHeight, thumbTop, otherVars>>

\* lines 914-949: the 10 ms timer of the last page-level wheel event fires
WheelTimer ==
    /\ wheelTimeout # 0
    /\ wheelTimeout' = 0
    /\ LET direction == IF wheelTimeout > 0 THEN 1 ELSE -1
           isAlignedToSection == Abs(scrollY - OffsetTop(currentSection)) < 10
           detected == DetectCurrentSection(scrollY, direction, currentSection)
           nextSection == IF isAlignedToSection
                          THEN Max(0, Min(SectionCount - 1, detected + direction))
                          ELSE detected
       IN  IF nextSection # detected \/ ~isAlignedToSection
           THEN /\ currentSection' = nextSection
                /\ SmoothScrollTo(OffsetTop(nextSection))
           ELSE /\ currentSection' = detected
                /\ UNCHANGED <<isScrolling, animations>>
    /\ UNCHANGED <<scrollY, lastWheel, viewerVars, scrollVars, otherVars>>

\* lines 775-787: animateScroll of the i-th loop runs on an animation frame,
\* half way through the 800 ms or after them; window.scrollTo keeps whole pixels
AnimationFrame(i) ==
    /\ i \in 1 .. Len(animations)
    /\ LET a == animations[i]
       IN  \/ /\ ~a.half
              /\ scrollY' = Clamp(a.start + ((a.target - a.start) \div 2), 0, MaxScrollY)
              /\ animations' = [animations EXCEPT ![i].half = TRUE]
              /\ UNCHANGED isScrolling
           \/ /\ scrollY' = Clamp(a.target, 0, MaxScrollY)
              /\ animations' = SubSeq(animations, 1, i - 1)
                               \o SubSeq(animations, i + 1, Len(animations))
              /\ isScrolling' = FALSE
    /\ UNCHANGED <<currentSection, wheelTimeout, lastWheel, viewerVars, scrollVars, otherVars>>

(***************************************************************************)
(* WheelSpec: wheel events over the viewer and the page at every zoom,     *)
(* with the page's timer and the smooth scrolls it starts.                 *)
(***************************************************************************)
WheelInit == InitWith({1}, {<<800, 600>>}, {100}) /\ OtherIdle

WheelNext ==
    \/ InitialTimer /\ KeepBudget
    \/ (\E s \in Sessions : LoadResolve(s)) /\ KeepBudget
    \/ (\E s \in Sessions : PageResolve(s)) /\ KeepBudget
    \/ (\E s \in Sessions : RenderResolve(s)) /\ KeepBudget
    \/ ScrollEvent /\ KeepBudget
    \/ Quiet /\ HandleZoomIn /\ KeepBudget
    \/ Quiet /\ HandleZoomOut /\ KeepBudget
    \/ Quiet /\ HandleReset /\ KeepBudget
    \/ (\E target \in WheelTargets, deltaY \in WheelDeltas : HandleWheel(target, deltaY))
       /\ KeepBudget
    \/ WheelTimer /\ KeepBudget
    \/ (\E i \in 1 .. Len(animations) : AnimationFrame(i)) /\ KeepBudget

WheelSpec == WheelInit /\ [][WheelNext]_vars

(***************************************************************************)
(* Properties of the render lifecycle.                                     *)
(***************************************************************************)
InFlight == {s \in Sessions : taskState[s] = "running"}
LiveDocs == {s \in Sessions : docState[s] = "loaded"}
\* the loads, page fetches and timers that are still pending
Pending ==
    \/ timeoutPending
    \/ retryCur + retryStale > 0
    \/ \E s \in Sessions : sess[s].pc \in {"load", "page"}

\* C1: the sessions that write the canvas do so in the order they started:
\* once a newer session has written the canvas, no older session (a lower
\* session number) writes it again.
C1_OlderSessionNeverOverwrites == [][canvas'.writer >= canvas.writer]_vars

\* C2: in every reachable state at most one rasterization task is in flight.
C2_AtMostOneTaskInFlight == Cardinality(InFlight) <= 1

\* C3: in every reachable state at most one loaded document exists that has
\* not been destroyed.
C3_AtMostOneLiveDocument == Cardinality(LiveDocs) <= 1

\* C4: once the viewer is unmounted and every pending load, page fetch and
\* timer has settled, no loaded document is left un-destroyed and no
\* rasterization task is left in flight.
C4_NothingLeakedAfterUnmount ==
    (~mounted /\ ~Pending) => (LiveDocs = {} /\ InFlight = {})

\* C10: no cancellation outcome reaches the error log (neither a cancelled
\* rasterization nor a document load destroyed in flight), and no session
\* logs more than once.
C10_NoCancellationLogged ==
    \A s \in Sessions :
        /\ Len(errorLog[s]) <= 1
        /\ \A i \in 1 .. Len(errorLog[s]) :
               errorLog[s][i] \notin {"render-cancelled", "load-destroyed"}


(***************************************************************************)
(* Properties of the zero-size retry, of the zoom and of the scales.       *)
(***************************************************************************)
ContainerReady == containerWidth # 0 /\ containerHeight # 0
\* a retry timer is pending and k sessions have started so far
RetryPendingAt(k) == retryCur > 0 /\ NewId = k + 1
\* the canvas shows the page as rendered by a session started after the k-th
PresentedAfter(k) == canvas.content = "page" /\ canvas.writer > k

\* C5: finding the container with zero width or height raises no error and
\* schedules another attempt; if the container is from some time on laid
\* out with nonzero width and height, then a render is eventually presented,
\* and every pending retry is followed by a presented render of a session
\* started after the retry was scheduled.
C5_RetryEventuallyPresents ==
    /\ [](\A s \in Sessions : errorLog[s] = <<>>)
    /\ (<>[]ContainerReady) =>
           /\ <>PresentedAfter(0)
           /\ \A k \in 0 .. MaxSessions : [](RetryPendingAt(k) => <>PresentedAfter(k))

\* C5 witness: renderPdf found no size and scheduled a retry, and the
\* container has been laid out since.
C5_Witness == retryCur > 0 /\ ContainerReady /\ NewId = 1

ZoomLevels == {100, 125, 150, 175, 200}

\* C6: the zoom is always one of 1.0, 1.25, 1.5, 1.75, 2.0; zoomIn adds
\* exactly 0.25 or leaves it at 2.0, zoomOut subtracts exactly 0.25 or leaves
\* it at 1.0, reset sets it to 1.0.
C6_ZoomLevelsAndSteps ==
    /\ [](zoom \in ZoomLevels)
    /\ [][/\ HandleZoomIn => zoom' = (IF zoom = 200 THEN 200 ELSE zoom + 25)
          /\ HandleZoomOut => zoom' = (IF zoom = 100 THEN 100 ELSE zoom - 25)
          /\ HandleReset => zoom' = 100]_vars

\* C6 witness: four zoomIn operations have taken the zoom to 2.0.
C6_Witness == zoom = 200 /\ timeoutPending

\* C7: a render sets baseScale to containerHeight / unscaledPageHeight
\* whatever the zoom is, the presented size is the page at baseScale x zoom,
\* and a zoom operation leaves baseScale as it is.
C7_BaseScaleIndependentOfZoom ==
    [][/\ \A s \in Sessions :
             (sess[s].pc = "page" /\ sess'[s].pc = "render") =>
                 LET ch == sess[s].containerHeight
                     page == PageSize(docUrl[sess[s].page])
                 IN  /\ ScaleEq(baseScaleRef', <<ch, page[2]>>)
                     /\ canvas'.cssHeight = Norm[<<ch * zoom, 100>>]
                     /\ canvas'.cssWidth = Norm[<<page[1] * ch * zoom, page[2] * 100>>]
       /\ (zoom' # zoom => baseScaleRef' = baseScaleRef)]_vars

\* C7 witness: a render at zoom 1.75 of the second document in a container
\* 900 high has computed its scales.
C7_Witness ==
    /\ zoom = 175
    /\ \E s \in Sessions : sess[s].pc = "render" /\ sess[s].containerHeight = 900
    /\ ScaleEq(baseScaleRef, <<900, 842>>)


(***************************************************************************)
(* Properties of the wheel routing.                                        *)
(***************************************************************************)
\* the event was consumed: default prevented and propagation stopped
Consumed(e) == e.defaultPrevented /\ e.propagationStopped
\* lines 906-914 ran for a wheel event with this deltaY
PageLevelHandled(deltaY) ==
    /\ lastWheel'.defaultPrevented
    /\ ~lastWheel'.propagationStopped
    /\ wheelTimeout' = (IF isScrolling THEN wheelTimeout ELSE deltaY)

C9_RoutedWheelLeavesPageAlone ==
    [][\A deltaY \in WheelDeltas :
           (zoom > 100 /\ HandleWheel("pdf-scroll-area", deltaY)) =>
               UNCHANGED <<currentSection, isScrolling, wheelTimeout, animations, scrollY>>]_vars

\* C9 witness: the last wheel event was routed to the scroll area and moved
\* it, and the timer of an earlier page-level wheel event is still pending.
C9_Witness ==
    /\ lastWheel.target = "pdf-scroll-area"
    /\ Consumed(lastWheel)
    /\ scrollTop > 0
    /\ wheelTimeout # 0
    /\ ~isScrolling


(***************************************************************************)
(* Scroll offsets a handler assigns.  A handler computes a number that may *)
(* be fractional, or not finite after a division by zero; the browser      *)
(* turns a value that is not finite into 0, keeps the others within the    *)
(* scroll range and snaps them to a whole pixel, down or up.               *)
(***************************************************************************)
\* the quotient of two scales, the second not 0
Div(x, y) ==
    IF y[1] < 0 THEN Norm[<<-(x[1] * y[2]), x[2] * (-y[1])>>]
    ELSE Norm[<<x[1] * y[2], x[2] * y[1]>>]
\* NaN, Infinity and -Infinity
NonFinite == <<0, 0>>
\* the offset of a drag that moves the content as far as the pointer
Mutant_DragOffsetUnscaled(start, deltaY, maxThumbTop, maxScroll) == Add(Whole(start), deltaY)
\* start + (deltaY / maxThumbTop) * maxScroll, as both drag handlers compute it
DragOffset(start, deltaY, maxThumbTop, maxScroll) ==
    IF maxThumbTop[1] = 0 THEN NonFinite
    ELSE Add(Whole(start), Mul(Div(deltaY, maxThumbTop), Whole(maxScroll)))
\* the offsets a scroll region with this range may take when v is assigned
Assigned(v, maxScroll) ==
    IF v[2] = 0 THEN {0}
    ELSE LET kept == RMax(Whole(0), RMin(v, Whole(Max(0, maxScroll))))
         IN  {Floor(kept), Ceil(kept)}

(***************************************************************************)
(* PdfViewer, lines 245-296: the scrollbar's thumb and track.  They are    *)
(* rendered while zoom > 1 (lines 298, 318); pointer coordinates are taken *)
(* from the top of the track, which is as high as the scroll area.         *)
(***************************************************************************)
\* where the pointer may be pressed, moved to or released
PointerYs == {Whole(0), Whole(30), Whole(300)}
\* the shares of the thumb's travel a drag may cover
TravelShares == {<<1, 2>>, <<1, 1>>}
\* the thumb as it is drawn (lines 323-326) lies under y
OnThumb(y) ==
    /\ Less(Whole(0), thumbHeight)
    /\ ~Less(y, thumbTop)
    /\ ~Less(Add(thumbTop, thumbHeight), y)
OnTrack(y) == ~Less(y, Whole(0)) /\ ~Less(Whole(containerHeight), y)
\* clientHeight - thumbHeight, the travel handleMouseMove divides by (line 262)
MaxThumbTop == Sub(Whole(containerHeight), thumbHeight)

NoViewerBarVars == <<viewerVars, scrollLeft, thumbHeight, thumbTop, pageVars, barVars,
                     cipherVars, pointerOn>>

\* lines 245-251: the pointer is pressed on the thumb at y
HandleThumbMouseDown(y) ==
    /\ mounted
    /\ zoom > 100
    /\ ~isDragging
    /\ OnThumb(y)
    /\ isDragging' = TRUE
    /\ dragStartY' = y
    /\ dragStartScroll' = scrollTop
    /\ pointerY' = y
    /\ UNCHANGED <<scrollTop, scrollEventPending>>
    /\ UNCHANGED NoViewerBarVars

\* lines 254-266: the pointer moves to y
HandleMouseMove(y) ==
    /\ mounted
    /\ IF isDragging
       THEN \E top \in Assigned(DragOffset(dragStartScroll, Sub(y, dragStartY), MaxThumbTop,
                                           MaxScrollTop), MaxScrollTop) :
                /\ scrollTop' = top
                /\ scrollEventPending' = (scrollEventPending \/ top # scrollTop)
       ELSE UNCHANGED <<scrollTop, scrollEventPending>>
    /\ pointerY' = (IF isDragging THEN y ELSE pointerY)
    /\ UNCHANGED dragVars
    /\ UNCHANGED NoViewerBarVars

\* a jump that takes the click's share of the thumb's travel
Mutant_TrackJumpOverTravel(clickY) ==
    \E top \in Assigned(Mul(Div(clickY, MaxThumbTop), Whole(MaxScrollTop)), MaxScrollTop) :
        /\ scrollTop' = top
        /\ scrollEventPending' = (scrollEventPending \/ top # scrollTop)

\* lines 283-296: handleTrackClick for a click at clickY whose target is the
\* track itself
TrackJump(clickY) ==
    \E top \in Assigned(Mul(Div(clickY, Whole(containerHeight)), Whole(MaxScrollTop)),
                        MaxScrollTop) :
        /\ scrollTop' = top
        /\ scrollEventPending' = (scrollEventPending \/ top # scrollTop)

\* the pointer is pressed and released on the track beside the thumb
HandleTrackClick(clickY) ==
    /\ mounted
    /\ zoom > 100
    /\ ~isDragging
    /\ OnTrack(clickY)
    /\ ~OnThumb(clickY)
    /\ TrackJump(clickY)
    /\ UNCHANGED <<dragVars, pointerY>>
    /\ UNCHANGED NoViewerBarVars

\* the element under a pointer at y, over the track's column or not
ReleaseTarget(y, overTrack) ==
    IF zoom > 100 /\ overTrack /\ OnThumb(y) THEN "thumb"
    ELSE IF zoom > 100 /\ overTrack /\ OnTrack(y) THEN "track"
    ELSE "outside"

\* lines 268-270 and 283-296: the pointer pressed on the thumb is released
\* where it is, over the track's column or beside it.
\* handleMouseUp ends the drag; the browser then dispatches a click to the
\* nearest common ancestor of the elements pressed and released on: the
\* thumb (handleTrackClick returns at line 284), the track (it jumps), or an
\* element above them (no handler).  A browser that sends no click when the
\* two elements differ leaves the offset alone.
HandleMouseUp(overTrack) ==
    /\ mounted
    /\ isDragging
    /\ isDragging' = FALSE
    /\ pointerY' = <<0, 1>>
    /\ UNCHANGED <<dragStartY, dragStartScroll>>
    /\ IF ReleaseTarget(pointerY, overTrack) = "track"
       THEN TrackJump(pointerY) \/ UNCHANGED <<scrollTop, scrollEventPending>>
       ELSE UNCHANGED <<scrollTop, scrollEventPending>>
    /\ UNCHANGED NoViewerBarVars

(***************************************************************************)
(* CustomScrollbar, lines 23-138: the window scrolls, is resized, and the  *)
(* page-level thumb and track are pressed.  Pointer coordinates are taken  *)
(* from the top of the track.                                              *)
(***************************************************************************)
\* document height - window height: the window's scroll range
MaxWindowScroll(vh, sh) == DocHeight(sh) - vh
\* where the page or the user may scroll the window to
WindowScrollYs == {0, 700, 1000}
\* trackHeight - thumbPx, the travel updateScrollbar places the thumb in (line 40)
BarTravel == Sub(Whole(innerHeight - TrackPadding(isEdge)), barThumbHeight)
\* viewHeight - thumbHeight, the travel handleMouseMove divides by (line 104)
BarMaxThumbTop == Sub(Whole(innerHeight), barThumbHeight)
BarOnThumb(y) ==
    /\ Less(Whole(0), barThumbHeight)
    /\ ~Less(y, barThumbTop)
    /\ ~Less(Add(barThumbTop, barThumbHeight), y)
BarOnTrack(y) == ~Less(y, Whole(0)) /\ ~Less(Whole(innerHeight), y)

NoBarVars == <<viewerVars, scrollVars, isScrolling, currentSection, wheelTimeout, animations,
               lastWheel, dragVars, cipherVars, pointerOn>>

\* the window is at y from now on and its scroll event, dispatched before
\* any other event, has reached updateScrollbar (line 80)
ScrollWindow(y) ==
    /\ scrollY' = y
    /\ IF y # scrollY
       THEN BarUpdateScrollbar(innerHeight, sectionHeight, isEdge, y, barSeenThumbTop)
       ELSE UNCHANGED <<barThumbHeight, barThumbTop, isLight>>

\* the window is scrolled to y by the page or the user
WindowScroll(y) ==
    /\ y \in 0 .. MaxWindowScroll(innerHeight, sectionHeight)
    /\ y # scrollY
    /\ ScrollWindow(y)
    /\ UNCHANGED <<innerHeight, sectionHeight, isEdge, barSeenThumbTop, barIsDragging,
                   barDragStartY, barDragStartScroll>>
    /\ UNCHANGED pointerY
    /\ UNCHANGED NoBarVars

\* line 81: the window is resized to the layout l; its resize event reaches
\* updateScrollbar
WindowResize(l) ==
    /\ l # <<innerHeight, sectionHeight>>
    /\ innerHeight' = l[1]
    /\ sectionHeight' = l[2]
    /\ scrollY' = Clamp(scrollY, 0, MaxWindowScroll(l[1], l[2]))
    /\ BarUpdateScrollbar(l[1], l[2], isEdge, scrollY', barSeenThumbTop)
    /\ UNCHANGED <<isEdge, barSeenThumbTop, barIsDragging, barDragStartY,
                   barDragStartScroll>>
    /\ UNCHANGED pointerY
    /\ UNCHANGED NoBarVars

\* lines 19-21 on Edge: isEdge becomes true, the component renders again and
\* the effect of lines 23-87 runs anew, its closure holding this render's
\* thumbTop
EdgeDetected ==
    /\ ~isEdge
    /\ isEdge' = TRUE
    /\ barSeenThumbTop' = barThumbTop
    /\ BarUpdateScrollbar(innerHeight, sectionHeight, TRUE, scrollY, barThumbTop)
    /\ UNCHANGED <<scrollY, innerHeight, sectionHeight, barIsDragging, barDragStartY,
                   barDragStartScroll>>
    /\ UNCHANGED pointerY
    /\ UNCHANGED NoBarVars

\* lines 89-94: the pointer is pressed on the thumb at y
BarHandleMouseDown(y) ==
    /\ ~barIsDragging
    /\ BarOnThumb(y)
    /\ barIsDragging' = TRUE
    /\ barDragStartY' = y
    /\ barDragStartScroll' = scrollY
    /\ pointerY' = y
    /\ UNCHANGED <<scrollY, innerHeight, sectionHeight, isEdge, barThumbHeight, barThumbTop,
                   barSeenThumbTop, isLight>>
    /\ UNCHANGED NoBarVars

\* lines 97-108: the pointer moves to y
BarHandleMouseMove(y) ==
    /\ IF barIsDragging
       THEN \E top \in Assigned(DragOffset(barDragStartScroll, Sub(y, barDragStartY),
                                           BarMaxThumbTop,
                                           MaxWindowScroll(innerHeight, sectionHeight)),
                                MaxWindowScroll(innerHeight, sectionHeight)) :
                ScrollWindow(top)
       ELSE UNCHANGED <<scrollY, barThumbHeight, barThumbTop, isLight>>
    /\ pointerY' = (IF barIsDragging THEN y ELSE pointerY)
    /\ UNCHANGED <<innerHeight, sectionHeight, isEdge, barSeenThumbTop, barIsDragging,
                   barDragStartY, barDragStartScroll>>
    /\ UNCHANGED NoBarVars

\* lines 125-138: handleTrackClick for a click at clickY whose target is the
\* track itself
BarTrackJump(clickY) ==
    \E top \in Assigned(Mul(Div(clickY, Whole(innerHeight)),
                            Whole(MaxWindowScroll(innerHeight, sectionHeight))),
                        MaxWindowScroll(innerHeight, sectionHeight)) :
        ScrollWindow(top)

\* the element under a pointer at y, over the track's column or not
BarReleaseTarget(y, overTrack) ==
    IF overTrack /\ BarOnThumb(y) THEN "thumb"
    ELSE IF overTrack /\ BarOnTrack(y) THEN "track"
    ELSE "outside"

\* lines 110-112 and 125-138: the pointer pressed on the thumb is released
\* where it is; handleMouseUp ends the drag and the browser dispatches the
\* click as it does in the viewer
BarHandleMouseUp(overTrack) ==
    /\ barIsDragging
    /\ barIsDragging' = FALSE
    /\ pointerY' = <<0, 1>>
    /\ IF BarReleaseTarget(pointerY, overTrack) = "track"
       THEN BarTrackJump(pointerY) \/ UNCHANGED <<scrollY, barThumbHeight, barThumbTop, isLight>>
       ELSE UNCHANGED <<scrollY, barThumbHeight, barThumbTop, isLight>>
    /\ UNCHANGED <<innerHeight, sectionHeight, isEdge, barSeenThumbTop, barDragStartY,
                   barDragStartScroll>>
    /\ UNCHANGED NoBarVars

\* the pointer is pressed and released on the track beside the thumb
BarHandleTrackClick(clickY) ==
    /\ ~barIsDragging
    /\ BarOnTrack(clickY)
    /\ ~BarOnThumb(clickY)
    /\ BarTrackJump(clickY)
    /\ UNCHANGED pointerY
    /\ UNCHANGED <<innerHeight, sectionHeight, isEdge, barSeenThumbTop, barIsDragging,
                   barDragStartY, barDragStartScroll>>
    /\ UNCHANGED NoBarVars

(***************************************************************************)
(* ScrollbarSpec: the two custom scrollbars.  The pointer works on one of  *)
(* them throughout a behaviour; the other component is left alone.  The    *)
(* viewer renders and is zoomed, while the re-runs of its render effect    *)
(* last, when no render is under way and no drag is on; the wheel is       *)
(* turned over it while no scroll event is pending; the pointer is moved   *)
(* to fixed places and, during a drag, by a half and by the whole of the   *)
(* thumb's travel.                                                         *)
(***************************************************************************)
\* the viewer's container: a usual one and one so low that the thumb's
\* least length applies
ScrollbarSizes == {<<800, 600>>, <<800, 50>>}

\* the places a drag that started at startY may move the pointer to
DragYs(startY, travel) == PointerYs \cup {Add(startY, Mul(p, travel)) : p \in TravelShares}

ScrollbarInit ==
    /\ \/ /\ pointerOn = "viewer"
          /\ InitWith({1}, ScrollbarSizes, {100})
          /\ BarInitWith({<<ViewportHeight, ViewportHeight>>})
       \/ /\ pointerOn = "page"
          /\ InitWith({1}, {<<800, 600>>}, {100})
          /\ BarInitWith(PageLayouts)
    /\ DragInit
    /\ CipherInit
    /\ gestures = 0
    /\ pointerY = <<0, 1>>

\* a press of the pointer, while the gestures last
Gesture == gestures < MaxGestures /\ gestures' = gestures + 1
NoGesture == UNCHANGED gestures

OnViewer == pointerOn = "viewer"
OnPage == pointerOn = "page"

ViewerBarNext ==
    \/ OnViewer /\ InitialTimer /\ KeepBudget
    \/ OnViewer /\ (\E s \in Sessions : LoadResolve(s)) /\ KeepBudget
    \/ OnViewer /\ (\E s \in Sessions : PageResolve(s)) /\ KeepBudget
    \/ OnViewer /\ (\E s \in Sessions : RenderResolve(s)) /\ KeepBudget
    \/ OnViewer /\ ScrollEvent /\ KeepBudget
    \/ OnViewer /\ Quiet /\ ~isDragging /\ UserZoomIn
    \/ OnViewer /\ Quiet /\ ~isDragging /\ UserZoomOut
    \/ OnViewer /\ Quiet /\ ~isDragging /\ UserReset
    \/ OnViewer /\ zoom > 100 /\ ~scrollEventPending /\ KeepBudget
       /\ (\E deltaY \in WheelDeltas : HandleWheel("pdf-scroll-area", deltaY))
    \/ OnViewer /\ (\E y \in PointerYs : HandleThumbMouseDown(y)) /\ Gesture /\ KeepBudget
    \/ OnViewer /\ (\E y \in DragYs(dragStartY, MaxThumbTop) : HandleMouseMove(y))
       /\ NoGesture /\ KeepBudget
    \/ OnViewer /\ (\E overTrack \in BOOLEAN : HandleMouseUp(overTrack)) /\ NoGesture
       /\ KeepBudget
    \/ OnViewer /\ (\E clickY \in PointerYs : HandleTrackClick(clickY)) /\ Gesture
       /\ KeepBudget

PageBarNext ==
    \/ OnPage /\ (\E y \in WindowScrollYs \cup {MaxWindowScroll(innerHeight, sectionHeight)} :
                      WindowScroll(y)) /\ NoGesture /\ KeepBudget
    \/ OnPage /\ (\E l \in PageLayouts : WindowResize(l)) /\ NoGesture /\ KeepBudget
    \/ OnPage /\ EdgeDetected /\ NoGesture /\ KeepBudget
    \/ OnPage /\ (\E y \in PointerYs : BarHandleMouseDown(y)) /\ Gesture /\ KeepBudget
    \/ OnPage /\ (\E y \in DragYs(barDragStartY, BarTravel) : BarHandleMouseMove(y))
       /\ NoGesture /\ KeepBudget
    \/ OnPage /\ (\E overTrack \in BOOLEAN : BarHandleMouseUp(overTrack)) /\ NoGesture
       /\ KeepBudget
    \/ OnPage /\ (\E clickY \in PointerYs : BarHandleTrackClick(clickY)) /\ Gesture
       /\ KeepBudget

ScrollbarNext == ViewerBarNext \/ PageBarNext

ScrollbarSpec == ScrollbarInit /\ [][ScrollbarNext]_vars

(***************************************************************************)
(* App, lines 1057-1087 and 1446-1451: the navigation links and the        *)
(* return-to-top button.  A section's getBoundingClientRect().top +        *)
(* window.scrollY is its offsetTop.  (The preview that handleNavClick      *)
(* selects is not part of this model.)                                     *)
(***************************************************************************)
NavClick(section) ==
    /\ currentSection' = section
    /\ SmoothScrollTo(OffsetTop(section))
    /\ UNCHANGED <<scrollY, wheelTimeout, lastWheel, viewerVars, scrollVars>>
    /\ UNCHANGED <<dragVars, barVars, cipherVars, pointerOn, pointerY>>
\* lines 1057-1067: the links to the resume and to the contact
HandleResumeClick == NavClick(2)
\* lines 1069-1087: the links to the projects and to the experience
HandleNavClick == NavClick(1)
\* lines 1446-1451
ReturnToTop == NavClick(0)

(***************************************************************************)
(* NavSpec: the page alone.  The wheel is turned over the page, its timer  *)
(* and the animation frames run, and the links and the button are clicked  *)
(* while the gestures last.                                                *)
(***************************************************************************)
NavNext ==
    \/ (\E deltaY \in WheelDeltas : HandleWheel("page", deltaY)) /\ KeepBudget
    \/ WheelTimer /\ KeepBudget
    \/ (\E i \in 1 .. Len(animations) : AnimationFrame(i)) /\ KeepBudget
    \/ HandleResumeClick /\ Gesture /\ KeepBudget
    \/ HandleNavClick /\ Gesture /\ KeepBudget
    \/ ReturnToTop /\ Gesture /\ KeepBudget

NavSpec == WheelInit /\ [][NavNext]_vars

(***************************************************************************)
(* TrackSpec: the viewer's thumb in a usual container and in one lower     *)
(* than the thumb's least length.  The viewer renders, is zoomed while no  *)
(* render is under way, and the wheel is turned over it.                   *)
(***************************************************************************)
TrackSizes == {<<800, 600>>, <<800, 30>>}

TrackInit ==
    /\ pointerOn = "viewer"
    /\ InitWith({1}, TrackSizes, {100})
    /\ BarInitWith({<<ViewportHeight, ViewportHeight>>})
    /\ DragInit
    /\ CipherInit
    /\ gestures = 0
    /\ pointerY = <<0, 1>>

TrackNext ==
    \/ InitialTimer /\ KeepBudget
    \/ (\E s \in Sessions : LoadResolve(s)) /\ KeepBudget
    \/ (\E s \in Sessions : PageResolve(s)) /\ KeepBudget
    \/ (\E s \in Sessions : RenderResolve(s)) /\ KeepBudget
    \/ ScrollEvent /\ KeepBudget
    \/ Quiet /\ UserZoomIn
    \/ Quiet /\ UserZoomOut
    \/ Quiet /\ UserReset
    \/ zoom > 100 /\ ~scrollEventPending /\ KeepBudget
       /\ (\E deltaY \in WheelDeltas : HandleWheel("pdf-scroll-area", deltaY))

TrackSpec == TrackInit /\ [][TrackNext]_vars

(***************************************************************************)
(* Properties of a failed rasterization and of the supersampling.          *)
(***************************************************************************)
\* the canvas holds a page that a completed render of its last writer drew
LastGoodSurface(cv, tasks) ==
    \/ cv = BlankCanvas
    \/ cv.content = "page" /\ tasks[cv.writer] = "done"

\* C11: when a rasterization fails with an error that is no cancellation,
\* the error is logged, the session ends, and the canvas (pixel size, CSS
\* size, contents) is as the last successful render left it, or blank when
\* there was none.
C11_FailedRenderKeepsLastGoodSurface ==
    [][\A s \in Sessions :
           RenderReject(s) =>
               /\ errorLog'[s] = Append(errorLog[s], "render-failed")
               /\ sess'[s].pc = "done"
               /\ LastGoodSurface(canvas', taskState')]_vars

\* C17: after every completed render the canvas's pixel width and height are
\* each at least 1.5 times its CSS width and height.
C17_PixelSizeAtLeastOneAndAHalfTimesCssSize ==
    canvas.content = "page" =>
        /\ ~Less(Whole(canvas.width * 100), Mul(Whole(MinOutputScale), canvas.cssWidth))
        /\ ~Less(Whole(canvas.height * 100), Mul(Whole(MinOutputScale), canvas.cssHeight))


(***************************************************************************)
(* CipherSpec: strings are typed, encoded by the reference's encode and    *)
(* decoded by App's decode; the stored code arrays are decoded too.        *)
(***************************************************************************)
NoCipherVars == <<viewerVars, scrollVars, pageVars, dragVars, barVars, pointerOn, gestures,
                  pointerY, budgetVars>>

\* one more character of the string to encode
TypeChar(c) ==
    /\ Len(plain) < MaxLen
    /\ plain' = Append(plain, c)
    /\ codes' = <<>>
    /\ decoded' = <<>>
    /\ UNCHANGED NoCipherVars

\* part_000, lines 65-70: encode(plain)
EncodePlain ==
    /\ codes' = encode(plain)
    /\ decoded' = <<>>
    /\ UNCHANGED plain
    /\ UNCHANGED NoCipherVars

\* a stored code array is taken, with the plaintext the reference documents
TakeContact(name) ==
    /\ codes' = obfuscatedContact[name]
    /\ plain' = documentedContact[name]
    /\ decoded' = <<>>
    /\ UNCHANGED NoCipherVars

\* part_001, lines 748-755: decode(codes)
DecodeCodes ==
    /\ codes # <<>>
    /\ decoded' = decode(codes)
    /\ UNCHANGED <<plain, codes>>
    /\ UNCHANGED NoCipherVars

CipherSpecInit == InitWith({1}, {<<800, 600>>}, {100}) /\ OtherIdle

CipherNext ==
    \/ \E c \in CipherChars : TypeChar(c)
    \/ EncodePlain
    \/ \E name \in ContactNames : TakeContact(name)
    \/ DecodeCodes

CipherSpec == CipherSpecInit /\ [][CipherNext]_vars

(***************************************************************************)
(* Properties of the contact cipher.                                       *)
(***************************************************************************)
\* C18: the key assembled from the scattered literals is "vK9xQ2m"; decoding
\* what encode made of a string of printable ASCII characters gives the
\* string back; decoding a stored code array gives its documented plaintext.
C18_DecodeInvertsEncode ==
    /\ _k = key
    /\ decoded # <<>> => decoded = plain
    /\ \A name \in ContactNames :
           (codes = obfuscatedContact[name] /\ decoded # <<>>) =>
               decoded = documentedContact[name]

\* C18 witness: a string longer than the key, so that the key has wrapped
\* around, was encoded and decoded.
C18_Witness ==
    /\ Len(plain) = MaxLen
    /\ plain[1] = 126 /\ plain[MaxLen] = 32
    /\ codes = encode(plain)
    /\ decoded = plain


(***************************************************************************)
(* Properties of the thumbs' geometry.                                     *)
(***************************************************************************)
\* updateScrollbar of the viewer ran in this step: on a scroll event or at
\* the end of a render
ViewerThumbUpdated ==
    \/ ScrollEvent
    \/ \E s \in Sessions : RenderResolve(s) /\ ~sess[s].isCancelled
\* updateScrollbar of the page-level scrollbar ran in this step
PageThumbUpdated ==
    pointerOn = "page" /\ <<scrollY, innerHeight, sectionHeight, isEdge>>'
                              # <<scrollY, innerHeight, sectionHeight, isEdge>>
\* offset / scrollOffset = travel / maxScroll: the offset is 0 at scroll
\* offset 0, the travel at the greatest scroll offset, and linear between
LinearOffset(offset, scrollOffset, travel, maxScroll) ==
    ScaleEq(Mul(offset, Whole(maxScroll)), Mul(Whole(scrollOffset), travel))

C13_ThumbLengthAtLeastMinimum ==
    [][/\ ViewerThumbUpdated =>
              /\ ~Less(thumbHeight', Whole(MinThumbPx))
              /\ containerHeight' * containerHeight'
                     < MinThumbPx * ScrollHeight(canvas', containerHeight')
                 => thumbHeight' = Whole(MinThumbPx)
       /\ PageThumbUpdated =>
              /\ ~Less(barThumbHeight', Whole(MinThumbPx))
              /\ innerHeight' * (innerHeight' - (IF isEdge' THEN 10 ELSE 4))
                     < MinThumbPx * DocHeight(sectionHeight')
                 => barThumbHeight' = Whole(MinThumbPx)]_vars

\* C13 witness: the viewer, 50 high, shows a rendered page at least 63
\* high, scrolled; the proportional length would be less than 40 and the
\* thumb is 40 long.
C13_Witness ==
    /\ pointerOn = "viewer"
    /\ containerHeight = 50
    /\ canvas.content = "page"
    /\ ScrollHeight(canvas, containerHeight) > 62
    /\ scrollTop > 0
    /\ thumbHeight = Whole(MinThumbPx)


(***************************************************************************)
(* Properties of the drags.                                                *)
(***************************************************************************)
\* the viewer's thumb is as long as updateScrollbar makes it for the canvas
\* and the container as they are now
ViewerThumbCurrent ==
    thumbHeight = UpdateScrollbar(canvas, containerHeight, scrollTop).thumbHeight

C15_PageDragCoversScrollRange ==
    [][(/\ barIsDragging
        /\ barDragStartScroll = 0
        /\ MaxWindowScroll(innerHeight, sectionHeight) > 0
        /\ BarHandleMouseMove(Add(barDragStartY, BarTravel)))
       => scrollY' = MaxWindowScroll(innerHeight, sectionHeight)]_vars


(***************************************************************************)
(* The style of the page-level thumb.                                      *)
(***************************************************************************)
\* what the thumb, drawn at offset top with length len in a window scrolled
\* to y, shares with the light or with the dark sections
ThumbOver(light, sh, edge, y, top, len) ==
    SumOverlap[0, [light |-> light, sh |-> sh, y |-> y,
                   spanTop |-> Add(top, Whole(TopPadding(edge))),
                   spanBottom |-> Add(Add(top, Whole(TopPadding(edge))), len)]]

\* C16: after every scroll or resize update of the page-level scrollbar the
\* thumb has the style "on-dark" if more than half of what the thumb, where
\* the update draws it, shares with the sections lies over light sections,
\* and the style "on-light" otherwise.
C16_ThumbStyleFollowsBackground ==
    [][PageThumbUpdated =>
           LET lightPixels == ThumbOver(TRUE, sectionHeight', isEdge', scrollY',
                                        barThumbTop', barThumbHeight')
               darkPixels == ThumbOver(FALSE, sectionHeight', isEdge', scrollY',
                                       barThumbTop', barThumbHeight')
           IN  ThumbClass(isLight') =
                   (IF Less(Add(lightPixels, darkPixels), Mul(Whole(2), lightPixels))
                    THEN "on-dark" ELSE "on-light")]_vars


(***************************************************************************)
(* The writers of the viewer's scroll offset.                              *)
(***************************************************************************)
\* C19: a step changes the scroll area's scrollTop only if it is a move of
\* the pointer during a drag, a click on the track or a reset of the zoom
\* (or the layout of a resized canvas, when the browser keeps the offset
\* within the new range); and the release of a pointer that was pressed on
\* the thumb leaves scrollTop as it is.
C19_OnlyDragAndJumpsWriteScrollTop ==
    [][/\ scrollTop' # scrollTop =>
              \/ isDragging /\ \E y \in DragYs(dragStartY, MaxThumbTop) : HandleMouseMove(y)
              \/ \E clickY \in PointerYs : HandleTrackClick(clickY)
              \/ HandleReset
              \/ \E s \in Sessions : PageResolve(s)
       /\ (\E overTrack \in BOOLEAN : HandleMouseUp(overTrack))
              => scrollTop' = scrollTop]_vars


(***************************************************************************)
(* The drag session.                                                       *)
(***************************************************************************)
\* C20: in both scrollbars a drag session begins with a press on the thumb
\* and ends with the next release, and with nothing else; a move of the
\* pointer outside a session leaves the scroll offset alone; a move within a
\* session sets it to the session's start offset plus the pointer's delta
\* scaled by scroll range / travel, as the scroll region keeps such a value
\* (within its range, on a whole pixel); and a move back to the coordinate
\* of the press restores the start offset.
C20_DragSessionLifecycle ==
    [][/\ \A y \in DragYs(dragStartY, MaxThumbTop) :
              HandleMouseMove(y) =>
                  /\ ~isDragging => scrollTop' = scrollTop
                  /\ (isDragging /\ MaxThumbTop # Whole(0)) =>
                         scrollTop' \in Assigned(Add(Whole(dragStartScroll),
                                                     Mul(Div(Sub(y, dragStartY), MaxThumbTop),
                                                         Whole(MaxScrollTop))),
                                                 MaxScrollTop)
                  /\ (isDragging /\ y = dragStartY /\ dragStartScroll <= MaxScrollTop) =>
                         scrollTop' = dragStartScroll
       /\ \A y \in DragYs(barDragStartY, BarTravel) :
              BarHandleMouseMove(y) =>
                  /\ ~barIsDragging => scrollY' = scrollY
                  /\ (barIsDragging /\ BarMaxThumbTop # Whole(0)) =>
                         scrollY' \in Assigned(
                             Add(Whole(barDragStartScroll),
                                 Mul(Div(Sub(y, barDragStartY), BarMaxThumbTop),
                                     Whole(MaxWindowScroll(innerHeight, sectionHeight)))),
                             MaxWindowScroll(innerHeight, sectionHeight))
                  /\ (/\ barIsDragging
                      /\ y = barDragStartY
                      /\ barDragStartScroll <= MaxWindowScroll(innerHeight, sectionHeight)) =>
                         scrollY' = barDragStartScroll
       /\ (~isDragging /\ isDragging') => \E y \in PointerYs : HandleThumbMouseDown(y)
       /\ (isDragging /\ ~isDragging') => \E overTrack \in BOOLEAN : HandleMouseUp(overTrack)
       /\ (~barIsDragging /\ barIsDragging') => \E y \in PointerYs : BarHandleMouseDown(y)
       /\ (barIsDragging /\ ~barIsDragging') =>
              \E overTrack \in BOOLEAN : BarHandleMouseUp(overTrack)]_vars


(***************************************************************************)
(* Documents and urls.                                                     *)
(***************************************************************************)
\* C21: when a document load starts, no loaded document of another url than
\* the current one is left un-destroyed; and every rasterization that starts
\* and every page that is presented comes from a document that was loaded
\* from the current url.
C21_OnlyDocumentsOfCurrentUrl ==
    [][/\ \A s \in Sessions :
              (docState[s] = "none" /\ docState'[s] = "loading") =>
                  \A d \in Sessions : docState'[d] = "loaded" => docUrl'[d] = url'
       /\ \A s \in Sessions :
              (taskState[s] # "running" /\ taskState'[s] = "running") =>
                  docUrl[sess[s].page] = url
       /\ \A s \in Sessions : RenderResolve(s) => docUrl[sess[s].page] = url]_vars

\* C22: a document whose load completes for an invocation of a superseded or
\* torn down effect is destroyed in that very step and is neither stored in
\* pdfDocRef nor handed to an invocation as its page; and a destroyed document
\* stays destroyed, is never stored, and no rasterization starts on it.
C22_LateDocumentIsDiscarded ==
    [][/\ \A s \in Sessions :
              (/\ sess[s].pc = "load"
               /\ sess[s].isCancelled
               /\ docState[s] = "loading"
               /\ docState'[s] \notin {"loading", "failed", "aborted"}) =>
                  /\ docState'[s] = "destroyed"
                  /\ pdfDocRef' # s
                  /\ \A t \in Sessions : sess'[t].page # s
       /\ \A s \in Sessions :
              docState[s] = "destroyed" =>
                  /\ docState'[s] = "destroyed"
                  /\ pdfDocRef' # s
                  /\ \A t \in Sessions :
                         sess'[t].page = s =>
                             /\ sess[t].page = s
                             /\ taskState'[t] = "running" => taskState[t] = "running"]_vars

\* A document of the current url is destroyed although the viewer is mounted
\* and the url never changed back: it was destroyed when its load completed.
C22_Witness ==
    /\ mounted
    /\ reruns <= 1
    /\ \E s \in Sessions :
           /\ docState[s] = "destroyed"
           /\ docUrl[s] = currentUrlRef
           /\ taskState[s] = "none"
           /\ pdfDocRef # s

(***************************************************************************)
(* The thumbs after scroll and resize events.                              *)
(***************************************************************************)
\* a scroll or a resize event of the window reached updateScrollbar of the
\* page-level scrollbar in this step (lines 80-81)
PageScrollOrResize ==
    /\ pointerOn = "page"
    /\ isEdge' = isEdge
    /\ <<scrollY, innerHeight, sectionHeight>>' # <<scrollY, innerHeight, sectionHeight>>

\* C23: each time the page-level scrollbar recomputes on a scroll or resize
\* event, the span it measures against the sections starts at the thumb
\* offset that this update computes (plus the top padding), i.e. the offset
\* the handler reads at line 50 is the offset it sets at line 41.
C23_MeasuredSpanIsCurrentSpan ==
    [][PageScrollOrResize =>
           Add(barSeenThumbTop, Whole(TopPadding(isEdge)))
               = Add(barThumbTop', Whole(TopPadding(isEdge')))]_vars

\* a resize event of the window reached handleResize of the viewer in this
\* step (lines 191-196)
ViewerResized == \E c \in LifecycleSizes : HandleResize(c[1], c[2])

\* C24: after a scroll event and after a resize event has been handled, the
\* displayed thumb is updateScrollbar's geometry for the region as it is then
\* (so that handling the event once more would display the same); a resize
\* event that leaves the viewer's region as it was leaves the viewer's state
\* as it was; and the page-level handler, run once more in the state it left,
\* would leave the thumb and its style as they are.
C24_ThumbFollowsSnapshot ==
    [][/\ (ScrollEvent \/ ViewerResized) =>
              /\ thumbHeight' = UpdateScrollbar(canvas', containerHeight', scrollTop').thumbHeight
              /\ thumbTop' = UpdateScrollbar(canvas', containerHeight', scrollTop').thumbTop
       /\ (ViewerResized /\ <<containerWidth, containerHeight>>'
                                = <<containerWidth, containerHeight>>) =>
              UNCHANGED <<viewerVars, scrollVars>>
       /\ PageScrollOrResize =>
              /\ barThumbHeight' = BarThumbPx(DocHeight(sectionHeight'), innerHeight', isEdge')
              /\ barThumbTop' = BarThumbOffset(DocHeight(sectionHeight'), innerHeight',
                                               isEdge', scrollY')
              /\ isLight' = NextIsLight(sectionHeight', isEdge', scrollY', barThumbHeight',
                                        barSeenThumbTop', isLight')]_vars

(***************************************************************************)
(* Clicks on the tracks.                                                   *)
(***************************************************************************)
\* (clickY / visibleExtent) x (contentExtent - visibleExtent)
ClickShare(clickY, visible, maxScroll) == Mul(Div(clickY, Whole(visible)), Whole(maxScroll))
\* the pointer pressed on the thumb is released on the thumb: the click's
\* target is the thumb
ViewerThumbClick == isDragging /\ OnThumb(pointerY) /\ HandleMouseUp(TRUE)
PageThumbClick == barIsDragging /\ BarOnThumb(pointerY) /\ BarHandleMouseUp(TRUE)
\* a and b are less than one pixel apart
LessThanOnePixelApart(a, b) == Less(Sub(a, b), Whole(1)) /\ Less(Sub(b, a), Whole(1))

\* C25 as stated: a click on the track beside the thumb, at clickY, sets the
\* scroll offset to exactly (clickY / visibleExtent) x (contentExtent -
\* visibleExtent), and a click whose target is the thumb leaves the offset as
\* it is.
C25_TrackClickSetsExactOffset ==
    [][/\ \A clickY \in PointerYs :
              /\ HandleTrackClick(clickY) =>
                     Whole(scrollTop') = ClickShare(clickY, containerHeight, MaxScrollTop)
              /\ BarHandleTrackClick(clickY) =>
                     Whole(scrollY') = ClickShare(clickY, innerHeight,
                                                 MaxWindowScroll(innerHeight, sectionHeight))
       /\ ViewerThumbClick => scrollTop' = scrollTop
       /\ PageThumbClick => scrollY' = scrollY]_vars

\* C25, amended: a click on the track beside the thumb, at clickY, sets the
\* scroll offset to an offset less than one pixel from (clickY /
\* visibleExtent) x (contentExtent - visibleExtent), the offset the browser
\* keeps for that value; a click whose target is the thumb leaves the offset
\* as it is.
C25_TrackClickSetsNearestOffset ==
    [][/\ \A clickY \in PointerYs :
              /\ HandleTrackClick(clickY) =>
                     LessThanOnePixelApart(Whole(scrollTop'),
                         ClickShare(clickY, containerHeight, MaxScrollTop))
              /\ BarHandleTrackClick(clickY) =>
                     LessThanOnePixelApart(Whole(scrollY'),
                         ClickShare(clickY, innerHeight,
                                    MaxWindowScroll(innerHeight, sectionHeight)))
       /\ ViewerThumbClick => scrollTop' = scrollTop
       /\ PageThumbClick => scrollY' = scrollY]_vars

\* The viewer at zoom 1.25 in a container 600 high (scroll range 150) after
\* a click on the track at 30: the offset is 7 or 8, next to 7.5.
C25_Witness ==
    /\ pointerOn = "viewer"
    /\ zoom = 125
    /\ containerHeight = 600
    /\ MaxScrollTop = 150
    /\ ~isDragging
    /\ gestures = 1
    /\ scrollTop \in {7, 8}

(***************************************************************************)
(* The viewer's scrollbar and the owner of the wheel.                      *)
(***************************************************************************)
\* lines 298 and 318: the track and the thumb are part of what a mounted
\* viewer renders
ShowScrollbar == mounted /\ zoom > 100

\* C26: the viewer's track and thumb are rendered exactly while zoom > 1.0;
\* after a reset, and after a zoomOut that reaches 1.0, they are not
\* rendered; and while they are not rendered a wheel event over the viewer's
\* scroll area goes to the page-level navigation: the viewer's offset stays,
\* propagation is not stopped, and the navigation timer is set unless a
\* smooth scroll runs.
C26_ScrollbarOnlyWhileZoomed ==
    [][/\ ShowScrollbar' <=> (mounted' /\ zoom' > ZoomMin)
       /\ HandleReset => ~ShowScrollbar'
       /\ (HandleZoomOut /\ zoom' = ZoomMin) => ~ShowScrollbar'
       /\ \A deltaY \in WheelDeltas :
              (~ShowScrollbar /\ HandleWheel("pdf-scroll-area", deltaY)) =>
                  /\ scrollTop' = scrollTop
                  /\ lastWheel'.defaultPrevented
                  /\ ~lastWheel'.propagationStopped
                  /\ wheelTimeout' = (IF isScrolling THEN wheelTimeout ELSE deltaY)]_vars

\* The zoom is back at 1.0 while the canvas still shows the page as it was
\* rendered zoomed in, and the last wheel event, over the scroll area, has
\* set the navigation timer.
C26_Witness ==
    /\ zoom = ZoomMin
    /\ ~ShowScrollbar
    /\ canvas.writer # 0
    /\ Less(Whole(containerHeight), canvas.cssHeight)
    /\ lastWheel.target = "pdf-scroll-area"
    /\ ~lastWheel.propagationStopped
    /\ wheelTimeout = lastWheel.deltaY

(***************************************************************************)
(* The reference to the rasterization in flight.                           *)
(***************************************************************************)
\* C27: whenever a rasterization task is in flight, renderTaskRef refers to
\* it, so that the next invocation of renderPdf or the cleanup cancels it.
C27_RunningTaskIsTracked == \A s \in InFlight : renderTaskRef = s

(***************************************************************************)
(* The page's smooth scrolls.                                              *)
(***************************************************************************)
\* C28: at most one smooth-scroll animation runs at a time, isScrolling is
\* true exactly while one runs, and a page-level wheel event that arrives
\* while isScrolling is true neither changes the current section nor sets
\* the navigation timer.
C28_OneAnimationAndFlagFollowsIt ==
    [][/\ Len(animations') <= 1
       /\ isScrolling' <=> animations' # <<>>
       /\ \A target \in WheelTargets, deltaY \in WheelDeltas :
              (isScrolling /\ HandleWheel(target, deltaY) /\ ~lastWheel'.propagationStopped) =>
                  /\ currentSection' = currentSection
                  /\ wheelTimeout' = wheelTimeout]_vars

(***************************************************************************)
(* The thumbs within their tracks.                                         *)
(***************************************************************************)
\* the thumb from offset top, len long, lies within a track extent high
InsideTrack(top, len, extent) ==
    /\ ~Less(top, Whole(0))
    /\ ~Less(Whole(extent), Add(top, len))

\* C29: the displayed thumb lies inside its track: its offset is not
\* negative, and offset + length is at most the visible extent (the
\* viewer's scroll area) or the track's height (the page-level scrollbar),
\* whatever the snapshot.
C29_ThumbInsideTrack ==
    /\ InsideTrack(thumbTop, thumbHeight, containerHeight)
    /\ InsideTrack(barThumbTop, barThumbHeight, innerHeight - TrackPadding(isEdge))

(***************************************************************************)
(* The retry timers.                                                       *)
(***************************************************************************)
\* C30: at most one timer of line 72 is pending for the viewer at any time;
\* and a retry that fires for an effect already cleaned up sets no timer and
\* leaves the documents, the canvas and the scroll state as they are.
C30_AtMostOneRetryPending ==
    [][/\ retryCur' + retryStale' <= 1
       /\ StaleRetryTimer =>
              /\ retryCur' + retryStale' < retryCur + retryStale
              /\ UNCHANGED <<docState, docUrl, pdfDocRef, loadingTask, sess, taskState,
                             renderTaskRef, canvas, scrollVars>>]_vars
====
